---- MODULE Spec2Model ----
(***************************************************************************)
(* Model of the JSON-RPC tool servers of examples 1 and 2                  *)
(* (example_01_hello_world.rs, example_02_calculator.rs): the tool         *)
(* registry (list_tools), the tool invoker (call_tool), the envelope       *)
(* handler (handle_message) and the stdin/stdout transport loop (main).    *)
(*                                                                         *)
(* JSON values (serde_json::Value) are tagged records:                     *)
(*   [t |-> "null"], [t |-> "num", v |-> Int], [t |-> "str", v |-> Seq],   *)
(*   [t |-> "arr", v |-> Seq(Value)], [t |-> "obj", v |-> [key |-> Value]] *)
(* A string is a sequence of text fragments, so that format!() is          *)
(* concatenation and "contains" is a sub-sequence test.                    *)
(* Option::None is [t |-> "none"]; a Rust Result is [ok |-> BOOLEAN, ...]. *)
(***************************************************************************)
EXTENDS Integers, Sequences, FiniteSets, TLC

VARIABLES
    server,     \* which example runs: "hello" or "calculator"
    pc,         \* position of main: start, read, process, write, newline, flush, done
    line,       \* main's `line` String buffer: the raw lines it currently holds
    response,   \* the Ok(response) of handle_message awaiting its write, or None
    stdout,     \* chunks written to standard output, oldest first
    flushed,    \* how many chunks of stdout have been flushed
    stderr,     \* lines written to standard error, oldest first
    input,      \* history: the raw lines read_line has returned so far
    outcome,    \* history: per line read, how the loop body ended for it
    stream,     \* what the streams did: "open", "eof", "read_failed", "write_failed"
    exit        \* main's return: "running", "ok" (Ok(())), "err" (Err via `?`)

mainVars == <<server, pc, line, response, stdout, flushed, stderr, input,
              outcome, stream, exit>>

\* Task queue (example 12): the TaskQueue value, its channel and its worker.
VARIABLES
    next_task_id,     \* TaskQueue::next_task_id, the counter behind the Mutex
    adding,           \* add_task calls that hold their id and have not sent yet
    sender,           \* TaskQueue::sender: "held", or "dropped" with the TaskQueue
    receiver,         \* the worker's receiver: "held" or "dropped"
    channel,          \* task items sent and not yet received, oldest first
    shutdown_notify,  \* whether the Notify holds a permit
    task_buffer,      \* worker_loop's task_buffer, front first
    worker,           \* position of worker_loop
    history           \* history: add_task returns, shutdown calls, executions, return

queueVars == <<next_task_id, adding, sender, receiver, channel, shutdown_notify,
               task_buffer, worker, history>>

\* Authentication service (example 13): the AuthService value, the clock it
\* reads, and what its callers have seen.
VARIABLES
    users,          \* AuthService::users: per username, <<>> or <<the User>>
    active_tokens,  \* AuthService::active_tokens: the stored AuthTokens
    now,            \* what Utc::now() returns, in minutes
    ticks,          \* how many times the clock has moved
    calls,          \* how many calls of the service have returned
    reply,          \* the latest call and what it returned
    observed,       \* history: per username, the failed logins since the last success
    issued,         \* history: the tokens authenticate has returned
    logged_out,     \* history: the token ids for which logout returned Ok
    cleaned         \* history: the token ids that were expired at a cleanup

authVars == <<users, active_tokens, now, ticks, calls, reply, observed, issued,
              logged_out, cleaned>>

\* Notification service (example 14): the NotificationService value, its
\* channel and its DeliveryWorker.
VARIABLES
    templates,         \* NotificationService::templates: name -> <<>> or <<template>>
    subscriptions,     \* NotificationService::subscriptions: user -> <<>> or <<its Vec>>
    notifications,     \* notifications sent on the channel and not received yet
    delivering,        \* the notification deliver_notification works on, <<>> if none
    delivery_results,  \* NotificationService::delivery_results
    queued             \* history: the notifications send_notification has queued

notifyVars == <<templates, subscriptions, notifications, delivering,
                delivery_results, queued>>

\* Configurable server (example 6): the ConfigurableServer value and what
\* its callers have seen.
VARIABLES
    tool_configs,   \* ServerConfig::tool_configs: name -> <<>> or <<its ToolConfig>>
    request_count,  \* ConfigurableServer::request_count
    listed,         \* the latest return of list_tools: <<>> or <<the Vec<Tool>>>
    invoked         \* the latest call_tool: <<>> or <<[name, arguments, result]>>

configVars == <<tool_configs, request_count, listed, invoked>>

\* File operations server (example 7): the FileOperationsServer value, the
\* file system it works on and what its callers have seen.
VARIABLES
    file_config,    \* FileOperationsServer::config, the two mode flags of it
    file_system,    \* per canonical path: <<>>, or <<the directory or file there>>
    offered,        \* the latest return of list_tools: <<>> or <<the Vec<Tool>>>
    requested       \* the latest call_tool: <<>> or <<[name, arguments, result, ops]>>

fileVars == <<file_config, file_system, offered, requested>>

\* Database server (example 9): the tables behind the DatabaseServer's pool
\* and what its callers have seen.
VARIABLES
    users_table,     \* table users: per id, <<>> or <<the row>>
    users_sequence,  \* the largest id AUTOINCREMENT has given out
    operation_logs,  \* table operation_logs, oldest row first
    db_calls,        \* how many call_tool calls have returned; also the clock
    db_result        \* the latest call_tool: <<>> or <<[name, arguments, before, ok, v]>>

dbVars == <<users_table, users_sequence, operation_logs, db_calls, db_result>>

vars == <<mainVars, queueVars, authVars, notifyVars, configVars, fileVars, dbVars>>

\* What a step of one example leaves alone: the state of the others.
outsideMain == <<queueVars, authVars, notifyVars, configVars, fileVars, dbVars>>
outsideQueue == <<mainVars, authVars, notifyVars, configVars, fileVars, dbVars>>
outsideAuth == <<mainVars, queueVars, notifyVars, configVars, fileVars, dbVars>>
outsideNotify == <<mainVars, queueVars, authVars, configVars, fileVars, dbVars>>
outsideConfig == <<mainVars, queueVars, authVars, notifyVars, fileVars, dbVars>>
outsideFile == <<mainVars, queueVars, authVars, notifyVars, configVars, dbVars>>
outsideDb == <<mainVars, queueVars, authVars, notifyVars, configVars, fileVars>>

\* How many lines the input stream delivers at most in a checked session.
MaxLines == 2

\* The same for a session that draws its lines from SessionLines.
MaxSessionLines == 3

--------------------------------------------------------------------------
\* serde_json::Value constructors

None == [t |-> "none"]
Null == [t |-> "null"]
Num(n) == [t |-> "num", v |-> n]
Str(frags) == [t |-> "str", v |-> frags]
S(text) == Str(<<text>>)
Arr(elems) == [t |-> "arr", v |-> elems]
Obj(fields) == [t |-> "obj", v |-> fields]
EmptyObject == Obj([k \in {} |-> Null])

\* Value::get(&str): Some(field) of an object that has the key, else None
\* (None for every non-object value).
Get(val, key) ==
    IF val.t = "obj" /\ key \in DOMAIN val.v THEN val.v[key] ELSE None

\* Option<&Value>::and_then(|v| v.as_str())
AsStr(opt) == IF opt.t = "str" THEN opt ELSE None

\* json!(opt) of an Option<&Value>: None serializes as null.
OptionToJson(opt) == IF opt.t = "none" THEN Null ELSE opt

\* str::contains on fragment sequences.
Contains(hay, needle) ==
    \E i \in 0..(Len(hay) - Len(needle)) :
        \A j \in 1..Len(needle) : hay[i + j] = needle[j]

\* serde_json::to_string(&value): the JSON text of a value.
ToJsonText(val) == [t |-> "json_text", v |-> val]

--------------------------------------------------------------------------
\* Tool registry

Servers == {"hello", "calculator"}

GreetingSchema ==
    Obj([type |-> S("object"),
         properties |-> Obj([name |->
             Obj([type |-> S("string"),
                  description |-> S("The name of the person to greet")])]),
         required |-> Arr(<<S("name")>>)])

CalculatorSchema ==
    Obj([type |-> S("object"),
         properties |-> Obj([
             operation |-> Obj([type |-> S("string"),
                                description |-> S("The operation to perform"),
                                enum |-> Arr(<<S("add"), S("subtract"),
                                               S("multiply"), S("divide")>>)]),
             a |-> Obj([type |-> S("number"), description |-> S("First number")]),
             b |-> Obj([type |-> S("number"), description |-> S("Second number")])]),
         required |-> Arr(<<S("operation"), S("a"), S("b")>>)])

Tool(name, description, schema) ==
    Obj([name |-> S(name), description |-> S(description), input_schema |-> schema])

\* Mutant of list_tools: the descriptor is not registered.
list_tools_empty(srv) == <<>>

\* Mutant of list_tools: a tool call that ran unregisters the tools.
list_tools_forgets(srv) ==
    IF \E i \in 1..Len(outcome) : outcome[i].ran THEN <<>>
    ELSE IF srv = "hello"
    THEN <<Tool("greeting", "Generate a personalized greeting message", GreetingSchema)>>
    ELSE <<Tool("calculator",
                "Perform basic arithmetic operations (add, subtract, multiply, divide)",
                CalculatorSchema)>>

list_tools(srv) ==
    IF srv = "hello"
    THEN <<Tool("greeting", "Generate a personalized greeting message", GreetingSchema)>>
    ELSE <<Tool("calculator",
                "Perform basic arithmetic operations (add, subtract, multiply, divide)",
                CalculatorSchema)>>

\* The names call_tool's match has an arm for.
ToolNames(srv) == { list_tools(srv)[i].v.name : i \in 1..Len(list_tools(srv)) }

--------------------------------------------------------------------------
\* serde_json::from_value into a #[derive(Deserialize)] struct.
\* fields: the struct's field names in declaration order; types[i] is "str"
\* (String) or "num" (f64). serde's derived visitor takes a JSON object
\* (unknown keys ignored; a known key of the wrong type fails while the map
\* is walked, a missing field after it) and also a JSON array, read
\* positionally with exactly Len(fields) elements.

IndexOf(fields, key) == CHOOSE i \in 1..Len(fields) : fields[i] = key

FromValueObject(fields, types, val) ==
    LET known == { fields[i] : i \in 1..Len(fields) }
        present == known \cap DOMAIN val.v
        badType == { k \in present : val.v[k].t # types[IndexOf(fields, k)] }
        missing == { i \in 1..Len(fields) : fields[i] \notin DOMAIN val.v }
    IN  IF badType # {}
        THEN [ok |-> FALSE, v |-> Str(<<"invalid type">>)]
        ELSE IF missing # {}
        THEN [ok |-> FALSE,
              v |-> Str(<<"missing field ",
                          fields[CHOOSE i \in missing : \A j \in missing : i <= j]>>)]
        ELSE [ok |-> TRUE, v |-> Obj([k \in known |-> val.v[k]])]

FromValueArray(fields, types, val) ==
    LET n == Len(fields)
        have == Len(val.v)
        firstBad == { i \in 1..n : i <= have /\ val.v[i].t # types[i] }
        \* visit_seq reads elements in order: a bad element before the end of
        \* a short array is reported before the length
        shortAt == IF have < n THEN have + 1 ELSE n + 1
    IN  IF \E i \in firstBad : i < shortAt
        THEN [ok |-> FALSE, v |-> Str(<<"invalid type">>)]
        ELSE IF have # n
        THEN [ok |-> FALSE, v |-> Str(<<"invalid length">>)]
        ELSE [ok |-> TRUE, v |-> Obj([k \in { fields[i] : i \in 1..n } |->
                                          val.v[IndexOf(fields, k)]])]

FromValue(fields, types, val) ==
    IF val.t = "obj" THEN FromValueObject(fields, types, val)
    ELSE IF val.t = "arr" THEN FromValueArray(fields, types, val)
    ELSE [ok |-> FALSE, v |-> Str(<<"invalid type">>)]

--------------------------------------------------------------------------
\* Tool invoker. A call_tool result is [ok, v, ran]: Ok(v) or Err(v), and
\* ran records whether the tool's own logic (the step after the arguments
\* were parsed) was executed.

GreetingFields == <<"name">>
GreetingTypes == <<"str">>
CalculatorFields == <<"operation", "a", "b">>
CalculatorTypes == <<"str", "num", "num">>

\* format!("Failed to parse arguments: {}", e)
ParseArgumentsError(e) == Str(<<"Failed to parse arguments: ">> \o e.v)

\* Mutant of UnknownToolError: the message leaves the name out.
UnknownToolErrorNoName(name) == Str(<<"Unknown tool">>)

\* format!("Unknown tool: {}", name)
UnknownToolError(name) == Str(<<"Unknown tool: ">> \o name.v)

\* impl Display for CalculatorError
CalculatorErrorText(err) ==
    IF err.kind = "DivisionByZero"
    THEN Str(<<"Division by zero", " is not allowed">>)
    ELSE Str(<<"Unsupported operation: ">> \o err.op.v)

\* Mutant of perform_calculation: the divisor is not checked; the f64
\* quotient by zero is infinite, which to_value serializes as null.
perform_calculation_unchecked(request) ==
    LET op == request.v.operation
        a == request.v.a.v
        b == request.v.b.v
    IN  IF op = S("add") THEN [ok |-> TRUE, v |-> Num(a + b)]
        ELSE IF op = S("subtract") THEN [ok |-> TRUE, v |-> Num(a - b)]
        ELSE IF op = S("multiply") THEN [ok |-> TRUE, v |-> Num(a * b)]
        ELSE IF op = S("divide")
        THEN IF b = 0 THEN [ok |-> TRUE, v |-> Null]
             ELSE [ok |-> TRUE, v |-> Num(a \div b)]
        ELSE [ok |-> FALSE, v |-> [kind |-> "UnsupportedOperation", op |-> op]]

\* f64 arithmetic on the integral values the checked inputs use; the inputs
\* keep every quotient integral.
perform_calculation(request) ==
    LET op == request.v.operation
        a == request.v.a.v
        b == request.v.b.v
    IN  IF op = S("add") THEN [ok |-> TRUE, v |-> Num(a + b)]
        ELSE IF op = S("subtract") THEN [ok |-> TRUE, v |-> Num(a - b)]
        ELSE IF op = S("multiply") THEN [ok |-> TRUE, v |-> Num(a * b)]
        ELSE IF op = S("divide")
        THEN IF b = 0
             THEN [ok |-> FALSE, v |-> [kind |-> "DivisionByZero", op |-> op]]
             ELSE [ok |-> TRUE, v |-> Num(a \div b)]
        ELSE [ok |-> FALSE, v |-> [kind |-> "UnsupportedOperation", op |-> op]]

greeting_tool(arguments) ==
    LET request == FromValue(GreetingFields, GreetingTypes, arguments)
    IN  IF ~request.ok
        THEN [ok |-> FALSE, v |-> ParseArgumentsError(request.v), ran |-> FALSE]
        ELSE [ok |-> TRUE,
              v |-> Obj([message |-> Str(<<"Hello, ">> \o request.v.v.name.v
                                         \o <<"! Welcome to MCP with Rust!">>)]),
              ran |-> TRUE]

calculator_tool(arguments) ==
    LET request == FromValue(CalculatorFields, CalculatorTypes, arguments)
    IN  IF ~request.ok
        THEN [ok |-> FALSE, v |-> ParseArgumentsError(request.v), ran |-> FALSE]
        ELSE LET result == perform_calculation(request.v)
             IN  IF ~result.ok
                 THEN [ok |-> FALSE, v |-> CalculatorErrorText(result.v), ran |-> TRUE]
                 ELSE [ok |-> TRUE,
                       v |-> Obj([result |-> result.v,
                                  operation_performed |->
                                      Str(<<ToString(request.v.v.a.v), " ">>
                                          \o request.v.v.operation.v
                                          \o <<" ", ToString(request.v.v.b.v)>>)]),
                       ran |-> TRUE]

call_tool(srv, name, arguments) ==
    IF srv = "hello" /\ name = S("greeting") THEN greeting_tool(arguments)
    ELSE IF srv = "calculator" /\ name = S("calculator") THEN calculator_tool(arguments)
    ELSE [ok |-> FALSE, v |-> UnknownToolError(name), ran |-> FALSE]

--------------------------------------------------------------------------
\* Envelope handler. A handle_message result is [ok, v, ran]: Ok(response
\* envelope) or Err(text).

ToolErrorCode == -32000

\* Mutant of EchoId: the response id is always null.
EchoIdNull(message) == Null

\* "id": message.get("id") inside json!
EchoId(message) == OptionToJson(Get(message, "id"))

ResultEnvelope(message, result) ==
    Obj([jsonrpc |-> S("2.0"), id |-> EchoId(message), result |-> result])

\* Mutant of ErrorEnvelope: the error response also carries a result.
ErrorEnvelopeWithResult(message, error) ==
    Obj([jsonrpc |-> S("2.0"), id |-> OptionToJson(Get(message, "id")),
         result |-> Null,
         error |-> Obj([code |-> Num(ToolErrorCode), message |-> error])])

ErrorEnvelope(message, error) ==
    Obj([jsonrpc |-> S("2.0"), id |-> EchoId(message),
         error |-> Obj([code |-> Num(ToolErrorCode), message |-> error])])

HandlerError(text) == [ok |-> FALSE, v |-> text, ran |-> FALSE]

\* params.get("arguments").unwrap_or(&Value::Object(Map::new())).clone()
ArgumentsOf(params) ==
    IF Get(params, "arguments").t = "none" THEN EmptyObject
    ELSE Get(params, "arguments")

tools_call(srv, message) ==
    LET params == Get(message, "params")
    IN  IF params.t = "none" THEN HandlerError(S("Missing params"))
        ELSE LET tool_name == AsStr(Get(params, "name"))
             IN  IF tool_name.t = "none" THEN HandlerError(S("Missing tool name"))
                 ELSE LET called == call_tool(srv, tool_name, ArgumentsOf(params))
                      IN  IF called.ok
                          THEN [ok |-> TRUE, ran |-> called.ran,
                                v |-> ResultEnvelope(message,
                                    Obj([content |-> Arr(<<Obj(
                                        [type |-> S("text"),
                                         text |-> ToJsonText(called.v)])>>)]))]
                          ELSE [ok |-> TRUE, ran |-> called.ran,
                                v |-> ErrorEnvelope(message, called.v)]

handle_message(srv, message) ==
    LET method == AsStr(Get(message, "method"))
    IN  IF method.t = "none" THEN HandlerError(S("Missing method"))
        ELSE IF method = S("tools/list")
        THEN [ok |-> TRUE, ran |-> FALSE,
              v |-> ResultEnvelope(message, Obj([tools |-> Arr(list_tools(srv))]))]
        ELSE IF method = S("tools/call") THEN tools_call(srv, message)
        ELSE HandlerError(Str(<<"Unknown method: ">> \o method.v))

--------------------------------------------------------------------------
\* The input stream. A raw line is [kind, v]: "empty" (just the newline),
\* "spaces" (whitespace only), "garbage" (text that is not JSON) or "json"
\* (the text of the JSON value v).

RawLine(kind, val) == [kind |-> kind, v |-> val]

\* An object from <<key, value>> pairs; a pair whose value is None is left out.
MkObj(pairs) ==
    LET kept == { p \in pairs : p[2].t # "none" }
    IN  Obj([k \in { p[1] : p \in kept } |-> (CHOOSE p \in kept : p[1] = k)[2]])

Request(id, method, params) ==
    MkObj({<<"jsonrpc", S("2.0")>>, <<"id", id>>, <<"method", method>>,
           <<"params", params>>})

Params(name, arguments) == MkObj({<<"name", name>>, <<"arguments", arguments>>})

\* absent, null, a number, a string
Ids == {None, Null, Num(3), S("req-1")}

GreetingArguments ==
    { None, Null,
      Obj([name |-> Num(7)]),
      Obj([name |-> S("Bob"), extra |-> Num(1)]),
      Arr(<<S("Bob")>>),
      Arr(<<>>) }

CalculatorArguments ==
    { None,
      Obj([operation |-> S("divide"), a |-> Num(6), b |-> Num(3)]),
      Obj([operation |-> S("divide"), a |-> Num(6), b |-> Num(0)]),
      Obj([operation |-> S("power"), a |-> Num(6), b |-> Num(3)]),
      Obj([operation |-> S("add"), a |-> S("six"), b |-> Num(3)]),
      Obj([operation |-> S("add"), a |-> Num(6)]),
      Arr(<<S("add"), Num(6), Num(3)>>) }

\* Requests whose id varies over every kind of id.
EnvelopeRequests ==
    { Request(id, m[1], m[2]) : id \in Ids, m \in
        { <<None, None>>,
          <<S("tools/list"), None>>,
          <<S("tools/call"), Params(S("greeting"), Obj([name |-> S("Bob")]))>> } }
    \cup { Request(Num(3), S("unknown/method"), None) }

\* Requests with one id and every shape of method, params and arguments.
ShapeRequests ==
    { Request(Num(1), m[1], m[2]) : m \in
        { <<Num(5), None>>,
          <<S("tools/call"), None>>,
          <<S("tools/call"), S("greeting")>>,
          <<S("tools/call"), Params(None, EmptyObject)>>,
          <<S("tools/call"), Params(Num(9), EmptyObject)>>,
          <<S("tools/call"), Params(S("nope"), None)>>,
          <<S("tools/call"), Params(S("nope"), Arr(<<S("Bob")>>))>>,
          <<S("tools/call"), Params(S("calculator"),
              Obj([operation |-> S("add"), a |-> Num(6), b |-> Num(3)]))>> }
        \cup { <<S("tools/call"), Params(S("greeting"), a)>> : a \in GreetingArguments }
        \cup { <<S("tools/call"), Params(S("calculator"), a)>> : a \in CalculatorArguments } }

\* A short list of lines for sessions of more lines: listings between calls
\* that succeed and fail, listings under every form of id, and divisions of
\* a dividend of every sign by zero.
Dividends == {-4, 0, 6}
ListIds == {None, Null, Num(0), S("req-1")}

SessionLines ==
    { RawLine("garbage", Null),
      RawLine("json", Request(Num(1), S("tools/call"),
                              Params(S("greeting"), Obj([name |-> S("Bob")])))),
      RawLine("json", Request(Num(1), S("tools/call"), Params(S("nope"), None))),
      RawLine("json", Request(Num(1), S("tools/call"),
                              Params(S("calculator"),
                                     Obj([operation |-> S("divide"), a |-> Num(6),
                                          b |-> Num(2)])))) }
    \cup { RawLine("json", Request(id, S("tools/list"), None)) : id \in ListIds }
    \cup { RawLine("json", Request(S("req-1"), S("tools/call"),
                                   Params(S("calculator"),
                                          Obj([operation |-> S("divide"), a |-> Num(a),
                                               b |-> Num(0)])))) :
               a \in Dividends }

Lines ==
    { RawLine("empty", Null), RawLine("spaces", Null), RawLine("garbage", Null),
      RawLine("json", Num(42)) }
    \cup { RawLine("json", r) : r \in EnvelopeRequests \cup ShapeRequests }

--------------------------------------------------------------------------
\* Transport loop (main)

IsWhitespace(l) == l.kind \in {"empty", "spaces"}

RECURSIVE TrimStart(_)
TrimStart(buf) ==
    IF buf = <<>> \/ ~IsWhitespace(Head(buf)) THEN buf ELSE TrimStart(Tail(buf))

RECURSIVE TrimEnd(_)
TrimEnd(buf) ==
    IF buf = <<>> \/ ~IsWhitespace(buf[Len(buf)]) THEN buf
    ELSE TrimEnd(SubSeq(buf, 1, Len(buf) - 1))

\* str::trim
Trim(buf) == TrimEnd(TrimStart(buf))

\* serde_json::from_str::<Value>: the text must hold exactly one JSON value.
from_str(text) ==
    IF Len(text) = 1 /\ text[1].kind = "json"
    THEN [ok |-> TRUE, v |-> text[1].v]
    ELSE [ok |-> FALSE, v |-> S("expected value or trailing characters")]

\* Mutant of ClearLine: the buffer keeps what earlier iterations read.
ClearLineKeeps(buf) == buf

\* line.clear()
ClearLine(buf) == <<>>

\* read_line(&mut line) appends the line it read to the buffer
ReadInto(buf, l) == Append(buf, l)

\* The loop body after a line was read: what it does with the buffer.
\* kind: "blank" (continue), "parse_err", "handle_err" (eprintln) or "ok".
LoopBody(srv, buf) ==
    LET trimmed == Trim(buf)
    IN  IF trimmed = <<>> THEN [kind |-> "blank", v |-> Null, ran |-> FALSE]
        ELSE LET parsed == from_str(trimmed)
             IN  IF ~parsed.ok
                 THEN [kind |-> "parse_err", ran |-> FALSE,
                       v |-> Str(<<"Failed to parse JSON: ">> \o parsed.v.v)]
                 ELSE LET handled == handle_message(srv, parsed.v)
                      IN  IF handled.ok
                          THEN [kind |-> "ok", v |-> handled.v, ran |-> handled.ran]
                          ELSE [kind |-> "handle_err", ran |-> FALSE,
                                v |-> Str(<<"Error handling message: ">> \o handled.v.v)]

\* Mutant of LoopAfter: end of stream does not break the loop.
LoopAfterIgnoresEof(kind) ==
    IF kind = "read_err" THEN "break"
    ELSE IF kind = "ok" THEN "write" ELSE "continue"

\* Mutant of LoopAfter: a line that is not JSON breaks out of the loop.
LoopAfterBreakOnParseError(kind) ==
    IF kind \in {"eof", "read_err", "parse_err"} THEN "break"
    ELSE IF kind = "ok" THEN "write" ELSE "continue"

\* Where the loop goes after each way an iteration can end: "break",
\* "continue" with the next read, or on to the "write" of the response.
LoopAfter(kind) ==
    CASE kind = "eof" -> "break"
      [] kind = "read_err" -> "break"
      [] kind = "blank" -> "continue"
      [] kind = "parse_err" -> "continue"
      [] kind = "handle_err" -> "continue"
      [] kind = "ok" -> "write"

Chunk(kind, val, src) == [kind |-> kind, v |-> val, src |-> src]

\* println!: the text and its newline on standard output
Println(out, text) == Append(out, Chunk("text", S(text), 0))

Banner(srv) ==
    IF srv = "hello"
    THEN <<"Starting Hello World MCP Server", "Available tools: greeting",
           "Send JSON-RPC messages via stdin", "Example: tools/list", "">>
    ELSE <<"Starting Calculator MCP Server", "Available tools: calculator",
           "Send JSON-RPC messages via stdin", "Example: tools/call", "">>

ShutdownNotice(srv) ==
    IF srv = "hello" THEN "Hello World server shutting down"
    ELSE "Calculator server shutting down"

\* The end of an iteration. After a break main prints the shutdown notice
\* and returns Ok(()); nothing suspends in between.
Leave(next) ==
    IF next = "break"
    THEN /\ stdout' = Println(stdout, ShutdownNotice(server))
         /\ flushed' = Len(stdout')
         /\ exit' = "ok"
         /\ pc' = "done"
    ELSE /\ pc' = IF next = "write" THEN "write" ELSE "read"
         /\ UNCHANGED <<stdout, flushed, exit>>

MainInit ==
    /\ server \in Servers
    /\ pc = "start"
    /\ line = <<>>
    /\ response = None
    /\ stdout = <<>>
    /\ flushed = 0
    /\ stderr = <<>>
    /\ input = <<>>
    /\ outcome = <<>>
    /\ stream = "open"
    /\ exit = "running"

\* The five println! of the banner; std's stdout is line buffered.
Startup ==
    /\ pc = "start"
    /\ stdout' = stdout \o [i \in 1..5 |-> Chunk("text", S(Banner(server)[i]), 0)]
    /\ flushed' = Len(stdout')
    /\ pc' = "read"
    /\ UNCHANGED <<server, line, response, stderr, input, outcome, stream, exit>>
    /\ UNCHANGED outsideMain

\* line.clear(); reader.read_line(&mut line).await => Ok(n > 0)
ReadLine ==
    /\ pc = "read"
    /\ Len(input) < MaxLines
    /\ \E l \in Lines :
        /\ line' = ReadInto(ClearLine(line), l)
        /\ input' = Append(input, l)
    /\ pc' = "process"
    /\ UNCHANGED <<server, response, stdout, flushed, stderr, outcome, stream, exit>>
    /\ UNCHANGED outsideMain

\* ReadLine for a session of SessionLines.
ReadSessionLine ==
    /\ pc = "read"
    /\ Len(input) < MaxSessionLines
    /\ \E l \in SessionLines :
        /\ line' = ReadInto(ClearLine(line), l)
        /\ input' = Append(input, l)
    /\ pc' = "process"
    /\ UNCHANGED <<server, response, stdout, flushed, stderr, outcome, stream, exit>>
    /\ UNCHANGED outsideMain

\* read_line => Ok(0): end of stream
ReadEof ==
    /\ pc = "read"
    /\ line' = ClearLine(line)
    /\ stream' = "eof"
    /\ Leave(LoopAfter("eof"))
    /\ UNCHANGED <<server, response, stderr, input, outcome>>
    /\ UNCHANGED outsideMain

\* read_line => Err(e): logged, break
ReadError ==
    /\ pc = "read"
    /\ line' = ClearLine(line)
    /\ stream' = "read_failed"
    /\ stderr' = Append(stderr, S("Error reading input"))
    /\ Leave(LoopAfter("read_err"))
    /\ UNCHANGED <<server, response, input, outcome>>
    /\ UNCHANGED outsideMain

\* trim, is_empty, from_str, handle_message and the eprintln! of the Err arms
Process ==
    /\ pc = "process"
    /\ LET body == LoopBody(server, line)
       IN  /\ outcome' = Append(outcome, body)
           /\ response' = IF body.kind = "ok" THEN body.v ELSE None
           /\ stderr' = IF body.kind \in {"parse_err", "handle_err"}
                        THEN Append(stderr, body.v) ELSE stderr
           /\ Leave(LoopAfter(body.kind))
    /\ UNCHANGED <<server, line, input, stream>>
    /\ UNCHANGED outsideMain

\* An `.await?` on standard output that fails: main returns the error.
WriteFails ==
    /\ pc \in {"write", "newline", "flush"}
    /\ stream' = "write_failed"
    /\ exit' = "err"
    /\ pc' = "done"
    /\ UNCHANGED <<server, line, response, stdout, flushed, stderr, input,
                   outcome>>
    /\ UNCHANGED outsideMain

\* let response_str = to_string(&response)?; stdout.write_all(response_str).await?
\* (to_string of a Value has no failing case: keys are strings, numbers finite)
WriteResponse ==
    /\ pc = "write"
    /\ stdout' = Append(stdout, Chunk("response", ToJsonText(response), Len(input)))
    /\ pc' = "newline"
    /\ UNCHANGED <<server, line, response, flushed, stderr, input, outcome, stream, exit>>
    /\ UNCHANGED outsideMain

\* stdout.write_all(b"\n").await?
WriteNewline ==
    /\ pc = "newline"
    /\ stdout' = Append(stdout, Chunk("newline", Null, Len(input)))
    /\ pc' = "flush"
    /\ UNCHANGED <<server, line, response, flushed, stderr, input, outcome, stream, exit>>
    /\ UNCHANGED outsideMain

\* Mutant of FlushAll: the flush leaves the written response buffered.
FlushNothing(out) == 0

\* stdout.flush(): everything written so far has left the buffer
FlushAll(out) == Len(out)

\* stdout.flush().await?
Flush ==
    /\ pc = "flush"
    /\ flushed' = FlushAll(stdout)
    /\ response' = None
    /\ pc' = "read"
    /\ UNCHANGED <<server, line, stdout, stderr, input, outcome, stream, exit>>
    /\ UNCHANGED outsideMain

Next ==
    \/ Startup
    \/ ReadLine
    \/ ReadEof
    \/ ReadError
    \/ Process
    \/ WriteResponse
    \/ WriteNewline
    \/ Flush
    \/ WriteFails


\* The positions of main: before the banner, at each await of the loop body,
\* and after its return.
Positions == {"start", "read", "process", "write", "newline", "flush", "done"}

\* main moves on to another position. Every step of main does, and until
\* main has returned one of its steps can be taken.
Advance == pc # "done" /\ pc' \in Positions \ {pc}

\* Sessions of SessionLines. The runtime keeps polling main, and every read
\* and write it awaits completes or fails, so main never stays at a position
\* other than its end forever.
NextSession ==
    \/ Startup
    \/ ReadSessionLine
    \/ ReadEof
    \/ ReadError
    \/ Process
    \/ WriteResponse
    \/ WriteNewline
    \/ Flush
    \/ WriteFails


--------------------------------------------------------------------------
\* Vocabulary of the properties

Message(i) == input[i].v
MethodOf(i) == Get(Message(i), "method")
ParamsOf(i) == Get(Message(i), "params")

\* Line i is a tools/call request with a string tool name.
IsToolCall(i) ==
    /\ input[i].kind = "json"
    /\ MethodOf(i) = S("tools/call")
    /\ Get(ParamsOf(i), "name").t = "str"

\* The loop is done with line i and no write of its response failed.
Answered(i) ==
    /\ i \in 1..Len(outcome)
    /\ \/ i < Len(input)
       \/ pc = "read"
       \/ pc = "done" /\ stream # "write_failed"

\* Where standard output holds a response written for line i.
ResponseChunks(i) ==
    { k \in 1..Len(stdout) : stdout[k].kind = "response" /\ stdout[k].src = i }

\* The envelope a response chunk is the JSON text of.
Envelope(k) == stdout[k].v.v

HasKey(val, key) == val.t = "obj" /\ key \in DOMAIN val.v

IsErrorEnvelope(e, code) ==
    /\ HasKey(e, "error")
    /\ HasKey(e.v.error, "code")
    /\ e.v.error.v.code = Num(code)

\* The id a response to this message must carry.
ExpectedId(msg) == IF HasKey(msg, "id") THEN msg.v.id ELSE Null

ToolNamed(srv, name) ==
    list_tools(srv)[CHOOSE i \in 1..Len(list_tools(srv)) : list_tools(srv)[i].v.name = name]

\* JSON Schema reading of a property schema {type, enum?}.
TypeMatches(prop, x) ==
    /\ prop.v.type = S("string") => x.t = "str"
    /\ prop.v.type = S("number") => x.t = "num"
    /\ (HasKey(prop, "enum") /\ x.t = "str") =>
           \E e \in 1..Len(prop.v.enum.v) : prop.v.enum.v[e] = x

\* JSON Schema reading of an input_schema {type: object, properties, required}.
MatchesSchema(schema, args) ==
    /\ args.t = "obj"
    /\ \A r \in 1..Len(schema.v.required.v) :
           schema.v.required.v[r].v[1] \in DOMAIN args.v
    /\ \A k \in DOMAIN args.v \cap DOMAIN schema.v.properties.v :
           TypeMatches(schema.v.properties.v[k], args.v[k])

\* What a session that reads line l first does with it.
FreshSession(srv, l) == LoopBody(srv, ReadInto(ClearLine(<<>>), l))

--------------------------------------------------------------------------
\* C1: every request whose method is a string other than "tools/list" and
\* "tools/call" is answered with an error envelope of code -32601 that
\* echoes the request id. (Stated as claimed; the code logs the request to
\* standard error and writes no response.)
C1_UnknownMethodAnswered ==
    \A i \in 1..Len(outcome) :
        ( /\ Answered(i)
          /\ input[i].kind = "json"
          /\ MethodOf(i).t = "str"
          /\ MethodOf(i) \notin {S("tools/list"), S("tools/call")} )
        => \E k \in ResponseChunks(i) :
               /\ IsErrorEnvelope(Envelope(k), -32601)
               /\ Envelope(k).v.id = ExpectedId(Message(i))

\* C2: a request without a string method is answered with an error envelope
\* of code -32600 and its id when it has an id, and produces no response
\* when it has none. (Stated as claimed; the code never answers it.)
C2_MissingMethodAnswered ==
    \A i \in 1..Len(outcome) :
        ( /\ Answered(i)
          /\ input[i].kind = "json"
          /\ MethodOf(i).t # "str" )
        => IF HasKey(Message(i), "id")
           THEN \E k \in ResponseChunks(i) :
                    /\ IsErrorEnvelope(Envelope(k), -32600)
                    /\ Envelope(k).v.id = Message(i).v.id
           ELSE ResponseChunks(i) = {}

\* C3: a tools/call naming a tool the server does not register, whatever
\* its arguments, yields an error envelope of code -32000 whose message
\* contains the tool name, and no tool logic runs.
C3_UnknownToolIsError ==
    \A i \in 1..Len(outcome) :
        (IsToolCall(i) /\ Get(ParamsOf(i), "name") \notin ToolNames(server))
        => /\ outcome[i].kind = "ok"
           /\ ~outcome[i].ran
           /\ IsErrorEnvelope(outcome[i].v, -32000)
           /\ Contains(outcome[i].v.v.error.v.message.v, Get(ParamsOf(i), "name").v)
           /\ \A k \in ResponseChunks(i) : Envelope(k) = outcome[i].v

C3_Witness ==
    \E i \in 1..Len(outcome) :
        /\ IsToolCall(i)
        /\ Get(ParamsOf(i), "name") \notin ToolNames(server)
        /\ HasKey(ParamsOf(i), "arguments")
        /\ Answered(i)
        /\ ResponseChunks(i) # {}

\* C4: a tools/call naming a registered tool with arguments that do not
\* match the tool's input schema (or absent, so the empty object is used)
\* yields an error envelope. (Stated as claimed; an array of the right
\* length and element types is deserialized positionally and answered with
\* a result.)
C4_BadArgumentsAreErrors ==
    \A i \in 1..Len(outcome) :
        ( /\ IsToolCall(i)
          /\ Get(ParamsOf(i), "name") \in ToolNames(server)
          /\ ~MatchesSchema(ToolNamed(server, Get(ParamsOf(i), "name")).v.input_schema,
                            ArgumentsOf(ParamsOf(i))) )
        => /\ outcome[i].kind = "ok"
           /\ HasKey(outcome[i].v, "error")
           /\ ~HasKey(outcome[i].v, "result")

\* C5: every response written carries the id of the request it answers
\* (a string, a number or null), and null when the request has no id.
C5_IdEchoed ==
    \A k \in 1..Len(stdout) :
        stdout[k].kind = "response"
        => /\ HasKey(Envelope(k), "id")
           /\ Envelope(k).v.id = ExpectedId(Message(stdout[k].src))

C5_Witness ==
    /\ \E k \in 1..Len(stdout) :
           /\ stdout[k].kind = "response"
           /\ ~HasKey(Message(stdout[k].src), "id")
    /\ \E k \in 1..Len(stdout) :
           /\ stdout[k].kind = "response"
           /\ HasKey(Message(stdout[k].src), "id")
           /\ Message(stdout[k].src).v.id.t = "str"

\* C6: every response envelope the handler produces, and every one written,
\* has exactly one of result and error.
C6_ResultXorError ==
    /\ \A i \in 1..Len(outcome) :
           outcome[i].kind = "ok"
           => (HasKey(outcome[i].v, "result") # HasKey(outcome[i].v, "error"))
    /\ \A k \in 1..Len(stdout) :
           stdout[k].kind = "response"
           => (HasKey(Envelope(k), "result") # HasKey(Envelope(k), "error"))

C6_Witness ==
    /\ \E k \in 1..Len(stdout) :
           stdout[k].kind = "response" /\ HasKey(Envelope(k), "error")
    /\ \E k \in 1..Len(stdout) :
           stdout[k].kind = "response" /\ HasKey(Envelope(k), "result")

\* C7: the loop is left only at end of stream or after an I/O failure: as
\* long as the streams deliver lines and accept writes, main is inside the
\* loop, whatever became of the lines read so far.
C7_OnlyEofOrIoFailureEnds ==
    /\ pc = "done" => stream # "open"
    /\ exit = "err" => stream = "write_failed"

C7_Witness ==
    /\ Len(outcome) = 2
    /\ outcome[1].kind \in {"parse_err", "handle_err"}
    /\ outcome[2].kind = "ok"
    /\ ResponseChunks(2) # {}
    /\ pc = "read"

\* C8: lines are handled one at a time in input order: when the next line
\* is read every response written so far is complete (text, newline) and
\* flushed; responses stand in the order of their requests, at most one per
\* line, and none for an empty or whitespace-only line.
C8_OneLineAtATime ==
    /\ pc \in {"read", "process"} => flushed = Len(stdout)
    /\ \A k \in 1..Len(stdout) :
           stdout[k].kind = "response"
           => /\ stdout[k].src \in 1..Len(input)
              /\ ~IsWhitespace(input[stdout[k].src])
              /\ \A j \in 1..(k - 1) :
                     stdout[j].kind = "response" => stdout[j].src < stdout[k].src
              /\ IF k < Len(stdout)
                 THEN stdout[k + 1].kind = "newline" /\ stdout[k + 1].src = stdout[k].src
                 ELSE pc \in {"newline", "done"} /\ stdout[k].src = Len(input)

C8_Witness ==
    /\ Len(input) = 2
    /\ ResponseChunks(1) # {}
    /\ ResponseChunks(2) # {}
    /\ pc = "read"

\* C9: what the loop does with a line (skip, log, or the response it
\* writes) is what a session reading that line first does with it,
\* whatever lines came before.
C9_ResponseDependsOnLineOnly ==
    /\ \A i \in 1..Len(outcome) : outcome[i] = FreshSession(server, input[i])
    /\ \A k \in 1..Len(stdout) :
           stdout[k].kind = "response"
           => /\ FreshSession(server, input[stdout[k].src]).kind = "ok"
              /\ Envelope(k) = FreshSession(server, input[stdout[k].src]).v

C9_Witness ==
    /\ Len(outcome) = 2
    /\ outcome[1].kind = "parse_err"
    /\ outcome[2].kind = "ok"
    /\ ResponseChunks(2) # {}
    /\ pc = "read"

\* C10: standard output carries response lines only; banner, diagnostics
\* and the shutdown notice go to standard error. (Stated as claimed; the
\* banner and the shutdown notice are printed to standard output.)
C10_StdoutHoldsOnlyResponses ==
    \A k \in 1..Len(stdout) : stdout[k].kind \in {"response", "newline"}

--------------------------------------------------------------------------
\* Line i is a tools/list request.
IsToolsList(i) == input[i].kind = "json" /\ MethodOf(i) = S("tools/list")

\* The registered tool names, in registration order, as the sources list them.
RegisteredNames(srv) == IF srv = "hello" THEN <<"greeting">> ELSE <<"calculator">>

\* The tools array is the registry: one descriptor per registered name, in
\* order, each with a name, a description and an object input schema.
IsRegistryListing(srv, tools) ==
    /\ tools.t = "arr"
    /\ Len(tools.v) = Len(RegisteredNames(srv))
    /\ \A n \in 1..Len(tools.v) :
           /\ tools.v[n].t = "obj"
           /\ DOMAIN tools.v[n].v = {"name", "description", "input_schema"}
           /\ tools.v[n].v.name = S(RegisteredNames(srv)[n])
           /\ tools.v[n].v.description.t = "str"
           /\ HasKey(tools.v[n].v.input_schema, "type")
           /\ tools.v[n].v.input_schema.v.type = S("object")

\* C11: every tools/list request, whatever its id, is answered with a
\* result whose tools array is the server's descriptor list in registration
\* order (hello world: the one tool named "greeting").
C11_ToolsListIsRegistry ==
    \A i \in 1..Len(outcome) :
        IsToolsList(i)
        => /\ outcome[i].kind = "ok"
           /\ HasKey(outcome[i].v, "result")
           /\ HasKey(outcome[i].v.v.result, "tools")
           /\ IsRegistryListing(server, outcome[i].v.v.result.v.tools)
           /\ Answered(i) => \E k \in ResponseChunks(i) : Envelope(k) = outcome[i].v

C11_Witness ==
    /\ server = "hello"
    /\ Len(input) = 3
    /\ \A i \in 1..3 : IsToolsList(i) /\ ResponseChunks(i) # {}
    /\ ~HasKey(Message(1), "id")
    /\ Get(Message(2), "id") = Num(0)
    /\ Get(Message(3), "id") = S("req-1")
    /\ pc = "read"

IsDivisionByZero(i) ==
    /\ server = "calculator"
    /\ IsToolCall(i)
    /\ Get(ParamsOf(i), "name") = S("calculator")
    /\ LET args == Get(ParamsOf(i), "arguments")
       IN  /\ args.t = "obj"
           /\ DOMAIN args.v = {"operation", "a", "b"}
           /\ args.v.operation = S("divide")
           /\ args.v.a.t = "num"
           /\ args.v.b = Num(0)

\* C13: a division by zero, for any dividend, is answered with an error
\* envelope of code -32000 that echoes the request id and whose message
\* contains "Division by zero", never with a result; and every error of a
\* tool that ran is such a -32000 envelope.
C13_DomainErrorFolded ==
    \A i \in 1..Len(outcome) :
        /\ IsDivisionByZero(i)
           => /\ outcome[i].kind = "ok"
              /\ outcome[i].ran
              /\ ~HasKey(outcome[i].v, "result")
              /\ IsErrorEnvelope(outcome[i].v, -32000)
              /\ outcome[i].v.v.id = ExpectedId(Message(i))
              /\ Contains(outcome[i].v.v.error.v.message.v, <<"Division by zero">>)
              /\ \A k \in ResponseChunks(i) : Envelope(k) = outcome[i].v
        /\ (outcome[i].ran /\ HasKey(outcome[i].v, "error"))
           => /\ IsErrorEnvelope(outcome[i].v, -32000)
              /\ outcome[i].v.v.error.v.message.t = "str"

C13_Witness ==
    /\ Len(input) = 3
    /\ \A i \in 1..3 : IsDivisionByZero(i) /\ ResponseChunks(i) # {}
    /\ \A i, j \in 1..3 :
           i # j => Get(ParamsOf(i), "arguments").v.a # Get(ParamsOf(j), "arguments").v.a

\* C14: a finite input stream ends the loop: main always reaches its end,
\* and once end of stream was read it has returned Ok(()), whatever the
\* lines were.
C14_TerminatesCleanly ==
    /\ <>(pc = "done")
    /\ [](stream = "eof" => (pc = "done" /\ exit = "ok"))

C14_Witness ==
    /\ pc = "done"
    /\ stream = "eof"
    /\ exit = "ok"
    /\ Len(input) = MaxSessionLines
    /\ outcome[1].kind = "parse_err"
    /\ \E i \in 1..Len(outcome) : IsDivisionByZero(i)

--------------------------------------------------------------------------
\* Task queue (example 12)

\* How many add_task calls and how many shutdown calls a checked run makes.
MaxTasks == 2
MaxShutdowns == 1

\* enum TaskPriority, with its discriminants; the derived Ord compares them.
TaskPriority == [Low |-> 1, Normal |-> 2, High |-> 3, Critical |-> 4]

\* The priorities the checked callers pass to add_task.
Priorities == {TaskPriority.Low, TaskPriority.Critical}

\* TaskItem::new. The boxed function only returns a text that the worker
\* logs, so an item is its id and its priority.
TaskItem(id, priority) == [id |-> id, priority |-> priority]

\* Entries of the history.
Event(op, id, priority, ok) == [op |-> op, id |-> id, priority |-> priority, ok |-> ok]

\* The position of the first task of lower priority, or the end.
insert_task_by_priority(buffer, task) ==
    LET lower == {i \in 1..Len(buffer) : buffer[i].priority < task.priority}
        insert_position ==
            IF lower = {} THEN Len(buffer) + 1
            ELSE CHOOSE i \in lower : \A j \in lower : i <= j
    IN  SubSeq(buffer, 1, insert_position - 1) \o <<task>>
        \o SubSeq(buffer, insert_position, Len(buffer))

\* Mutant of notify_one: a notification that finds no waiter is dropped.
notify_waiter_only(position) == position = "select"

\* Notify::notify_one as shutdown uses it: the waiter at select! is woken,
\* and when there is none the permit is stored for the next notified().
notify_one(position) == TRUE

\* UnboundedSender::send succeeds as long as the receiver exists.
send(rx) == rx = "held"

\* TaskQueue::new: channel, Notify, counter at 1, worker spawned.
QueueInit ==
    /\ next_task_id = 1
    /\ adding = {}
    /\ sender = "held"
    /\ receiver = "held"
    /\ channel = <<>>
    /\ shutdown_notify = FALSE
    /\ task_buffer = <<>>
    /\ worker = "select"
    /\ history = <<>>

\* add_task up to `drop(next_id)`: the call takes its id under the lock.
AddTaskTakeId ==
    /\ sender = "held"
    /\ next_task_id <= MaxTasks
    /\ \E priority \in Priorities :
           adding' = adding \cup {TaskItem(next_task_id, priority)}
    /\ next_task_id' = next_task_id + 1
    /\ UNCHANGED <<sender, receiver, channel, shutdown_notify, task_buffer,
                   worker, history>>
    /\ UNCHANGED outsideQueue

\* add_task from `self.sender.send(task_item)`: Ok(task_id) or
\* Err("Task queue is shut down").
AddTaskSend ==
    /\ \E task_item \in adding :
        /\ adding' = adding \ {task_item}
        /\ IF send(receiver)
           THEN /\ channel' = Append(channel, task_item)
                /\ history' = Append(history,
                                     Event("add", task_item.id, task_item.priority, TRUE))
           ELSE /\ channel' = channel
                /\ history' = Append(history,
                                     Event("add", task_item.id, task_item.priority, FALSE))
    /\ UNCHANGED <<next_task_id, sender, receiver, shutdown_notify, task_buffer,
                   worker>>
    /\ UNCHANGED outsideQueue

ShutdownCalls == Len(SelectSeq(history, LAMBDA e : e.op = "shutdown"))

\* TaskQueue::shutdown
Shutdown ==
    /\ sender = "held"
    /\ ShutdownCalls < MaxShutdowns
    /\ shutdown_notify' = (shutdown_notify \/ notify_one(worker))
    /\ history' = Append(history, Event("shutdown", 0, 0, TRUE))
    /\ UNCHANGED <<next_task_id, adding, sender, receiver, channel, task_buffer,
                   worker>>
    /\ UNCHANGED outsideQueue

\* The TaskQueue goes out of scope: its sender is dropped. No call borrows
\* it any more.
DropQueue ==
    /\ sender = "held"
    /\ adding = {}
    /\ sender' = "dropped"
    /\ UNCHANGED <<next_task_id, adding, receiver, channel, shutdown_notify,
                   task_buffer, worker, history>>
    /\ UNCHANGED outsideQueue

\* select!: receiver.recv() => Some(task); the task is inserted
RecvSome ==
    /\ worker = "select"
    /\ channel # <<>>
    /\ task_buffer' = insert_task_by_priority(task_buffer, Head(channel))
    /\ channel' = Tail(channel)
    /\ worker' = "recv_process"
    /\ UNCHANGED <<next_task_id, adding, sender, receiver, shutdown_notify, history>>
    /\ UNCHANGED outsideQueue

\* worker_loop returns: its receiver is dropped, and with it what the
\* channel still holds.
WorkerReturns ==
    /\ worker' = "exited"
    /\ receiver' = "dropped"
    /\ channel' = <<>>
    /\ history' = Append(history, Event("return", 0, 0, TRUE))

\* select!: receiver.recv() => None, the channel is empty and closed
RecvNone ==
    /\ worker = "select"
    /\ channel = <<>>
    /\ sender = "dropped"
    /\ WorkerReturns
    /\ UNCHANGED <<next_task_id, adding, sender, shutdown_notify, task_buffer>>
    /\ UNCHANGED outsideQueue

\* select!: shutdown_notify.notified() completes and takes the permit
Notified ==
    /\ worker = "select"
    /\ shutdown_notify
    /\ shutdown_notify' = FALSE
    /\ worker' = "shutdown_process"
    /\ UNCHANGED <<next_task_id, adding, sender, receiver, channel, task_buffer,
                   history>>
    /\ UNCHANGED outsideQueue

\* The three calls of process_task_buffer in worker_loop.
Processing == {"recv_process", "shutdown_process", "final_process"}

\* process_task_buffer: pop_front => Some(task); task.execute(); sleep
Execute ==
    /\ worker \in Processing
    /\ task_buffer # <<>>
    /\ history' = Append(history, Event("execute", Head(task_buffer).id,
                                         Head(task_buffer).priority, TRUE))
    /\ task_buffer' = Tail(task_buffer)
    /\ UNCHANGED <<next_task_id, adding, sender, receiver, channel, shutdown_notify,
                   worker>>
    /\ UNCHANGED outsideQueue

\* process_task_buffer: pop_front => None; worker_loop goes on after the call
Processed ==
    /\ worker \in Processing
    /\ task_buffer = <<>>
    /\ CASE worker = "recv_process" ->
                worker' = "select" /\ UNCHANGED <<receiver, channel, history>>
         [] worker = "shutdown_process" ->
                worker' = "drain" /\ UNCHANGED <<receiver, channel, history>>
         [] worker = "final_process" -> WorkerReturns
    /\ UNCHANGED <<next_task_id, adding, sender, shutdown_notify, task_buffer>>
    /\ UNCHANGED outsideQueue

\* while let Ok(task) = receiver.try_recv() { insert_task_by_priority }
TryRecv ==
    /\ worker = "drain"
    /\ IF channel # <<>>
       THEN /\ task_buffer' = insert_task_by_priority(task_buffer, Head(channel))
            /\ channel' = Tail(channel)
            /\ worker' = worker
       ELSE /\ worker' = "final_process"
            /\ UNCHANGED <<task_buffer, channel>>
    /\ UNCHANGED <<next_task_id, adding, sender, receiver, shutdown_notify, history>>
    /\ UNCHANGED outsideQueue

\* The steps of the spawned worker_loop.
Worker ==
    \/ RecvSome
    \/ RecvNone
    \/ Notified
    \/ Execute
    \/ Processed
    \/ TryRecv

NextQueue ==
    \/ AddTaskTakeId
    \/ AddTaskSend
    \/ Shutdown
    \/ DropQueue
    \/ RecvSome
    \/ RecvNone
    \/ Notified
    \/ Execute
    \/ Processed
    \/ TryRecv

--------------------------------------------------------------------------
\* Vocabulary of the task queue properties

Events(op) == {i \in 1..Len(history) : history[i].op = op}

\* The add_task calls that returned Ok(task_id).
Accepted == {i \in Events("add") : history[i].ok}

\* The executions of the task with this id.
ExecutionsOf(id) == {j \in Events("execute") : history[j].id = id}

\* At event j the task accepted at event i was queued and had not started.
Waiting(i, j) == i < j /\ \A k \in ExecutionsOf(history[i].id) : k >= j

\* C15: when a task starts executing, no task of higher priority is
\* queued and waiting: of two queued tasks that have not started, the one
\* of higher priority is executed first.
C15_HigherPriorityFirst ==
    \A j \in Events("execute") :
        \A i \in Accepted :
            Waiting(i, j) => history[i].priority <= history[j].priority

\* The tasks accepted before event k.
AcceptedBefore(k) == {i \in Accepted : i < k}

\* The call that starts the shutdown: the first shutdown event.
IsFirstShutdown(k) == k \in Events("shutdown") /\ \A h \in Events("shutdown") : k <= h

\* C16: when worker_loop returns, every task accepted before shutdown was
\* called has been executed; and after a shutdown call worker_loop does
\* return.
C16_GracefulShutdown ==
    /\ [](\A r \in Events("return") :
              \A k \in Events("shutdown") :
                  IsFirstShutdown(k)
                  => \A i \in AcceptedBefore(k) :
                         \E j \in ExecutionsOf(history[i].id) : j < r)
    /\ (Events("shutdown") # {}) ~> (worker = "exited")

\* A shutdown call made while the worker was busy with a task, tasks
\* accepted before the call that run after it, and then the return.
C16_Witness ==
    /\ worker = "exited"
    /\ \E k \in Events("shutdown") :
        /\ IsFirstShutdown(k)
        /\ k > 1 /\ history[k - 1].op = "execute"
        /\ \E i \in AcceptedBefore(k) : \E j \in ExecutionsOf(history[i].id) : j > k

\* C17: no task is executed twice; when worker_loop has returned every
\* accepted task has been executed; and no add_task is accepted after the
\* return.
C17_AcceptedRunsOnce ==
    /\ \A i \in Accepted : Cardinality(ExecutionsOf(history[i].id)) <= 1
    /\ \A r \in Events("return") :
           /\ \A i \in Accepted : ExecutionsOf(history[i].id) # {}
           /\ \A i \in Accepted : i < r

--------------------------------------------------------------------------
\* Authentication service (example 13)

MAX_LOGIN_ATTEMPTS == 5
LOCKOUT_DURATION_MINUTES == 30
TOKEN_EXPIRY_HOURS == 24

\* How many calls a checked run makes and how often its clock moves.
MaxCalls == 7
MaxTicks == 2

\* By how much the clock moves at once: a minute, up to the last minute of
\* a lockout, or the lifetime of a token.
ClockSteps == {1, LOCKOUT_DURATION_MINUTES - 1, TOKEN_EXPIRY_HOURS * 60}

\* The credentials the checked callers use; a password is its characters.
Usernames == {"test_user"}
TestPass456 == <<"T", "e", "s", "t", "P", "a", "s", "s", "4", "5", "6", "!">>
wrong_password == <<"w", "r", "o", "n", "g", "_", "p", "a", "s", "s", "w", "o", "r", "d">>
Passwords == {TestPass456, wrong_password}

\* char::is_uppercase, is_lowercase, is_numeric on the characters in use.
Uppercase == {"T", "P"}
Lowercase == {"e", "s", "t", "a", "w", "r", "o", "n", "g", "p", "d"}
Numeric == {"4", "5", "6"}

is_password_strong(password) ==
    /\ Len(password) >= 8
    /\ \E i \in 1..Len(password) : password[i] \in Uppercase
    /\ \E i \in 1..Len(password) : password[i] \in Lowercase
    /\ \E i \in 1..Len(password) : password[i] \in Numeric
    /\ \E i \in 1..Len(password) : password[i] \notin Uppercase \cup Lowercase \cup Numeric

\* SHA-256 in hexadecimal: a digest that only equal passwords share.
hash_password(password) == <<"sha256">> \o password

verify_password(password, hash) == hash_password(password) = hash

\* User::new. An Option<DateTime> is <<>> or <<minutes>>; the random id and
\* the e-mail address play no part in any operation.
User(username, password) ==
    [username |-> username,
     password_hash |-> hash_password(password),
     role |-> "User",
     last_login |-> <<>>,
     is_active |-> TRUE,
     failed_login_attempts |-> 0,
     locked_until |-> <<>>]

\* Mutant of is_locked: no account is ever locked.
is_locked_never(user, at) == FALSE

\* User::is_locked, with the clock reading `at`
is_locked(user, at) ==
    IF user.locked_until # <<>> THEN at < user.locked_until[1] ELSE FALSE

\* User::increment_failed_attempts
increment_failed_attempts(user, at) ==
    LET attempts == user.failed_login_attempts + 1
    IN  [user EXCEPT !.failed_login_attempts = attempts,
                     !.locked_until =
                         IF attempts >= MAX_LOGIN_ATTEMPTS
                         THEN <<at + LOCKOUT_DURATION_MINUTES>>
                         ELSE user.locked_until]

\* User::reset_failed_attempts
reset_failed_attempts(user) ==
    [user EXCEPT !.failed_login_attempts = 0, !.locked_until = <<>>]

\* User::update_last_login
update_last_login(user, at) == [user EXCEPT !.last_login = <<at>>]

\* AuthToken::new; token_id stands for the fresh Uuid.
AuthToken(user, token_id, at) ==
    [token_id |-> token_id,
     username |-> user.username,
     role |-> user.role,
     issued_at |-> at,
     expires_at |-> at + TOKEN_EXPIRY_HOURS * 60]

\* AuthToken::is_expired, with the clock reading `at`
is_expired(token, at) == at > token.expires_at

\* What a call returned.
Reply(op, arg, ok, v) == [op |-> op, arg |-> arg, ok |-> ok, v |-> v]

\* Uuid::new_v4: an id no earlier token has.
FreshTokenId == Cardinality(issued) + 1

\* The token ids callers present: those issued so far and one never issued.
TokenIds == 1..(Cardinality(issued) + 1)

\* AuthService::new, at some reading of the clock.
AuthInit ==
    /\ users = [u \in Usernames |-> <<>>]
    /\ active_tokens = {}
    /\ now = 0
    /\ ticks = 0
    /\ calls = 0
    /\ reply = Reply("new", "", TRUE, "")
    /\ observed = [u \in Usernames |-> [failed |-> 0, refused_at |-> <<>>]]
    /\ issued = {}
    /\ logged_out = {}
    /\ cleaned = {}

\* Time passes.
Tick ==
    /\ ticks < MaxTicks
    /\ \E d \in ClockSteps : now' = now + d
    /\ ticks' = ticks + 1
    /\ UNCHANGED <<users, active_tokens, calls, reply, observed, issued, logged_out,
                   cleaned>>
    /\ UNCHANGED outsideAuth

\* AuthService::register_user
RegisterUser ==
    /\ calls < MaxCalls
    /\ calls' = calls + 1
    /\ \E username \in Usernames, password \in Passwords :
        IF users[username] # <<>>
        THEN /\ reply' = Reply("register_user", username, FALSE, "Username already exists")
             /\ users' = users
        ELSE IF ~is_password_strong(password)
        THEN /\ reply' = Reply("register_user", username, FALSE,
                               "Password does not meet security requirements")
             /\ users' = users
        ELSE /\ reply' = Reply("register_user", username, TRUE, "")
             /\ users' = [users EXCEPT ![username] = <<User(username, password)>>]
    /\ UNCHANGED <<active_tokens, now, ticks, observed, issued, logged_out, cleaned>>
    /\ UNCHANGED outsideAuth

\* A failed login of a registered user, as its caller sees it.
ObserveFailure(username, error) ==
    observed' =
        [observed EXCEPT ![username] =
            [failed |-> @.failed + 1,
             refused_at |-> IF error = "Invalid username or password"
                            THEN <<now>> ELSE @.refused_at]]

\* AuthService::authenticate; it holds the write lock on users throughout.
Authenticate ==
    /\ calls < MaxCalls
    /\ calls' = calls + 1
    /\ \E username \in Usernames, password \in Passwords :
        IF users[username] = <<>>
        THEN /\ reply' = Reply("authenticate", username, FALSE, "Invalid username or password")
             /\ UNCHANGED <<users, active_tokens, observed, issued>>
        ELSE LET user == users[username][1]
             IN  IF is_locked(user, now)
                 THEN /\ reply' = Reply("authenticate", username, FALSE,
                            "Account is temporarily locked due to too many failed attempts")
                      /\ ObserveFailure(username, reply'.v)
                      /\ UNCHANGED <<users, active_tokens, issued>>
                 ELSE IF ~user.is_active
                 THEN /\ reply' = Reply("authenticate", username, FALSE,
                                        "Account is deactivated")
                      /\ ObserveFailure(username, reply'.v)
                      /\ UNCHANGED <<users, active_tokens, issued>>
                 ELSE IF ~verify_password(password, user.password_hash)
                 THEN /\ users' = [users EXCEPT ![username] =
                                       <<increment_failed_attempts(user, now)>>]
                      /\ reply' = Reply("authenticate", username, FALSE,
                                        "Invalid username or password")
                      /\ ObserveFailure(username, reply'.v)
                      /\ UNCHANGED <<active_tokens, issued>>
                 ELSE LET logged_in == update_last_login(reset_failed_attempts(user), now)
                          token == AuthToken(logged_in, FreshTokenId, now)
                      IN  /\ users' = [users EXCEPT ![username] = <<logged_in>>]
                          /\ active_tokens' = active_tokens \cup {token}
                          /\ reply' = Reply("authenticate", username, TRUE, token)
                          /\ issued' = issued \cup {token}
                          /\ observed' = [observed EXCEPT ![username] =
                                             [failed |-> 0, refused_at |-> <<>>]]
    /\ UNCHANGED <<now, ticks, logged_out, cleaned>>
    /\ UNCHANGED outsideAuth

\* AuthService::validate_token
ValidateToken ==
    /\ calls < MaxCalls
    /\ calls' = calls + 1
    /\ \E token_id \in TokenIds :
        LET found == {t \in active_tokens : t.token_id = token_id}
        IN  IF found = {}
            THEN reply' = Reply("validate_token", token_id, FALSE, "Invalid token")
            ELSE LET token == CHOOSE t \in found : TRUE
                 IN  IF is_expired(token, now)
                     THEN reply' = Reply("validate_token", token_id, FALSE,
                                         "Token has expired")
                     ELSE reply' = Reply("validate_token", token_id, TRUE, token)
    /\ UNCHANGED <<users, active_tokens, now, ticks, observed, issued, logged_out,
                   cleaned>>
    /\ UNCHANGED outsideAuth

\* Mutant of remove: the token stays in the store.
remove_nothing(tokens, token_id) == tokens

\* HashMap::remove on the token store
remove(tokens, token_id) == {t \in tokens : t.token_id # token_id}

\* AuthService::logout
Logout ==
    /\ calls < MaxCalls
    /\ calls' = calls + 1
    /\ \E token_id \in TokenIds :
        IF \E t \in active_tokens : t.token_id = token_id
        THEN /\ active_tokens' = remove(active_tokens, token_id)
             /\ reply' = Reply("logout", token_id, TRUE, "")
             /\ logged_out' = logged_out \cup {token_id}
        ELSE /\ reply' = Reply("logout", token_id, FALSE, "Token not found")
             /\ UNCHANGED <<active_tokens, logged_out>>
    /\ UNCHANGED <<users, now, ticks, observed, issued, cleaned>>
    /\ UNCHANGED outsideAuth

\* AuthService::cleanup_expired_tokens
CleanupExpiredTokens ==
    /\ calls < MaxCalls
    /\ calls' = calls + 1
    /\ active_tokens' = {t \in active_tokens : ~is_expired(t, now)}
    /\ reply' = Reply("cleanup_expired_tokens", "", TRUE, "")
    /\ cleaned' = cleaned \cup {t.token_id : t \in {i \in issued : is_expired(i, now)}}
    /\ UNCHANGED <<users, now, ticks, observed, issued, logged_out>>
    /\ UNCHANGED outsideAuth

NextAuth ==
    \/ Tick
    \/ RegisterUser
    \/ Authenticate
    \/ ValidateToken
    \/ Logout
    \/ CleanupExpiredTokens

--------------------------------------------------------------------------
\* Vocabulary of the authentication properties

\* This step is the return of a call of `op` with argument `arg`.
Returns(op, arg) == calls' = calls + 1 /\ reply'.op = op /\ reply'.arg = arg

\* The registered user has had MAX_LOGIN_ATTEMPTS failed logins and no
\* successful one since, and the lockout after the latest refused password
\* has not elapsed.
LockedOut(username) ==
    /\ users[username] # <<>>
    /\ observed[username].failed >= MAX_LOGIN_ATTEMPTS
    /\ observed[username].refused_at # <<>>
    /\ now < observed[username].refused_at[1] + LOCKOUT_DURATION_MINUTES

\* C18: once a registered user has MAX_LOGIN_ATTEMPTS failed logins and
\* no successful one since, the account is locked for the lockout duration
\* and every authenticate for that user within it fails, whatever the
\* password, and stores no token; and after a successful authenticate the
\* user's counter of failed attempts is 0.
C18_LockoutAfterMaxAttempts ==
    /\ [][\A username \in Usernames :
              (LockedOut(username) /\ Returns("authenticate", username))
              => /\ ~reply'.ok
                 /\ reply'.v = "Account is temporarily locked due to too many failed attempts"
                 /\ active_tokens' = active_tokens]_vars
    /\ [](\A username \in Usernames :
              (users[username] # <<>> /\ observed[username].failed >= MAX_LOGIN_ATTEMPTS)
              => users[username][1].locked_until
                     = <<observed[username].refused_at[1] + LOCKOUT_DURATION_MINUTES>>)
    /\ []((reply.op = "authenticate" /\ reply.ok)
              => users[reply.arg][1].failed_login_attempts = 0)

\* The correct password refused in the last minute of the lockout.
C18_Witness ==
    /\ reply.op = "authenticate"
    /\ ~reply.ok
    /\ reply.arg = "test_user"
    /\ observed["test_user"].failed = MAX_LOGIN_ATTEMPTS + 1
    /\ users["test_user"][1].failed_login_attempts = MAX_LOGIN_ATTEMPTS
    /\ now = observed["test_user"].refused_at[1] + LOCKOUT_DURATION_MINUTES - 1
    /\ reply.v = "Account is temporarily locked due to too many failed attempts"

\* The tokens issued with this id.
IssuedAs(token_id) == {t \in issued : t.token_id = token_id}

\* C19: validate_token succeeds only for a token that authenticate has
\* issued, that has not expired and that neither logout nor a cleanup has
\* removed, and returns that token; after a successful logout of a token
\* validate_token fails for it and logout returns "Token not found".
C19_TokenLifecycle ==
    [][\A token_id \in TokenIds :
           /\ (Returns("validate_token", token_id) /\ reply'.ok)
              => /\ reply'.v \in IssuedAs(token_id)
                 /\ ~is_expired(reply'.v, now)
                 /\ token_id \notin logged_out \cup cleaned
           /\ (Returns("validate_token", token_id) /\ token_id \in logged_out)
              => ~reply'.ok
           /\ (Returns("logout", token_id) /\ token_id \in logged_out)
              => ~reply'.ok /\ reply'.v = "Token not found"]_vars

\* The second logout of a token that was valid before its first.
C19_Witness ==
    /\ reply.op = "logout"
    /\ ~reply.ok
    /\ reply.arg = 1
    /\ reply.v = "Token not found"
    /\ 1 \in logged_out
    /\ IssuedAs(1) # {}
    /\ \A t \in IssuedAs(1) : ~is_expired(t, now)

--------------------------------------------------------------------------
\* Notification service (example 14)

\* How many send_notification calls a checked run makes.
MaxSends == 2

\* The max_retries that send_notification gives every notification.
max_retries == 3

NotificationChannel == {"Email", "Sms", "Webhook", "PushNotification", "InApp"}

\* The templates of the demonstration, by name, with their channels.
TemplateChannels ==
    [welcome_email |-> <<"Email", "InApp">>,
     security_alert |-> <<"Email", "Sms", "PushNotification">>]

\* What the checked callers pass: template names, one of them never
\* created; users, one of them never subscribed; the channels subscribed to.
TemplateNames == {"welcome_email", "security_alert", "no_template"}
UserIds == {"user123", "nobody"}
SubscribedChannels == {"Email", "InApp"}

\* The simulated transports: which channels can fail, and with what.
DeliveryError ==
    [Email |-> "SMTP server unavailable",
     Sms |-> "SMS gateway error",
     Webhook |-> "Webhook endpoint unreachable"]

\* The outcomes deliver_email .. deliver_in_app can have for a channel.
DeliveryOutcomes(chan) ==
    IF chan \in DOMAIN DeliveryError
    THEN {[ok |-> TRUE, error |-> <<>>], [ok |-> FALSE, error |-> <<DeliveryError[chan]>>]}
    ELSE {[ok |-> TRUE, error |-> <<>>]}

\* The Notification that send_notification builds; subject, body and
\* priority are carried along and read by no one but the log.
Notification(id, recipient_id, chan) ==
    [id |-> id, recipient_id |-> recipient_id, channel |-> chan,
     retry_count |-> 0, max_retries |-> max_retries]

DeliveryResult(notification, result) ==
    [notification_id |-> notification.id,
     success |-> result.ok,
     attempt_count |-> notification.retry_count,
     error_message |-> result.error]

\* Whether the sequence holds the element.
contains(seq, x) == \E i \in 1..Len(seq) : seq[i] = x

\* NotificationService::new: empty stores, worker spawned and waiting.
NotifyInit ==
    /\ templates = [n \in TemplateNames |-> <<>>]
    /\ subscriptions = [u \in UserIds |-> <<>>]
    /\ notifications = <<>>
    /\ delivering = <<>>
    /\ delivery_results = <<>>
    /\ queued = <<>>

\* NotificationService::create_template
CreateTemplate ==
    /\ \E name \in DOMAIN TemplateChannels :
           templates' = [templates EXCEPT ![name] =
                            <<[name |-> name, supported_channels |-> TemplateChannels[name]]>>]
    /\ UNCHANGED <<subscriptions, notifications, delivering, delivery_results, queued>>
    /\ UNCHANGED outsideNotify

\* NotificationService::subscribe_user; a second subscription to a channel
\* is refused and changes nothing.
SubscribeUser ==
    /\ \E chan \in SubscribedChannels, is_active \in BOOLEAN :
        LET user_subscriptions ==
                IF subscriptions["user123"] = <<>> THEN <<>> ELSE subscriptions["user123"][1]
        IN  IF \E i \in 1..Len(user_subscriptions) : user_subscriptions[i].channel = chan
            THEN subscriptions' = [subscriptions EXCEPT !["user123"] = <<user_subscriptions>>]
            ELSE subscriptions' =
                     [subscriptions EXCEPT !["user123"] =
                         <<Append(user_subscriptions,
                                  [channel |-> chan, is_active |-> is_active])>>]
    /\ UNCHANGED <<templates, notifications, delivering, delivery_results, queued>>
    /\ UNCHANGED outsideNotify

\* The subscriptions send_notification does not skip.
Eligible(template, user_subscriptions) ==
    SelectSeq(user_subscriptions,
              LAMBDA sub : sub.is_active /\ contains(template.supported_channels, sub.channel))

\* NotificationService::send_notification: one notification per eligible
\* subscription, in subscription order, each with a fresh id. A call that
\* returns "Template not found" or "User not found", or that queues
\* nothing, changes no state.
SendNotification ==
    /\ Len(SelectSeq(queued, LAMBDA n : n.first)) < MaxSends
    /\ \E user_id \in UserIds, template_name \in TemplateNames :
        /\ templates[template_name] # <<>>
        /\ subscriptions[user_id] # <<>>
        /\ LET eligible == Eligible(templates[template_name][1], subscriptions[user_id][1])
               made == [i \in 1..Len(eligible) |->
                           Notification(Len(queued) + i, user_id, eligible[i].channel)]
           IN  /\ eligible # <<>>
               /\ notifications' = notifications \o made
               /\ queued' = queued \o [i \in 1..Len(made) |->
                                          [notification |-> made[i], first |-> i = 1]]
    /\ UNCHANGED <<templates, subscriptions, delivering, delivery_results>>
    /\ UNCHANGED outsideNotify

\* DeliveryWorker::run: recv() => Some(notification), and the first line of
\* deliver_notification
Receive ==
    /\ delivering = <<>>
    /\ notifications # <<>>
    /\ delivering' = <<[Head(notifications) EXCEPT !.retry_count = @ + 1]>>
    /\ notifications' = Tail(notifications)
    /\ UNCHANGED <<templates, subscriptions, delivery_results, queued>>
    /\ UNCHANGED outsideNotify

\* deliver_notification from the transport's answer on: the result is
\* stored and the worker returns to recv. Nothing reads max_retries and
\* nothing is sent on the channel again.
Deliver ==
    /\ delivering # <<>>
    /\ \E result \in DeliveryOutcomes(delivering[1].channel) :
        delivery_results' = Append(delivery_results,
                                   DeliveryResult(delivering[1], result))
    /\ delivering' = <<>>
    /\ UNCHANGED <<templates, subscriptions, notifications, queued>>
    /\ UNCHANGED outsideNotify

NextNotify ==
    \/ CreateTemplate
    \/ SubscribeUser
    \/ SendNotification
    \/ Receive
    \/ Deliver

--------------------------------------------------------------------------
\* Vocabulary of the notification properties

\* The worker is done with the notification of this id: it is neither on
\* the channel nor being delivered.
Settled(id) ==
    /\ \A i \in 1..Len(notifications) : notifications[i].id # id
    /\ \A i \in 1..Len(delivering) : delivering[i].id # id

\* The delivery results recorded for the notification of this id.
ResultsOf(id) == {i \in 1..Len(delivery_results) : delivery_results[i].notification_id = id}

\* C20: a notification the worker is done with and whose last recorded
\* result is a failure has had max_retries attempts.
C20_FailedOnlyAfterMaxRetries ==
    \A q \in 1..Len(queued) :
        LET id == queued[q].notification.id
        IN  (Settled(id) /\ ResultsOf(id) # {})
            => LET last == CHOOSE i \in ResultsOf(id) : \A j \in ResultsOf(id) : j <= i
               IN  ~delivery_results[last].success
                   => delivery_results[last].attempt_count >= queued[q].notification.max_retries

--------------------------------------------------------------------------
\* Configurable server (example_06_configurable_server.rs): tools are
\* listed and called according to ServerConfig::tool_configs.

\* How many call_tool calls are followed.
MaxRequests == 2

\* serde_json::from_value into a derived struct some of whose fields are
\* Option<_>: such a field may be missing or null and is then None.
FromValueWithOptions(fields, types, optional, val) ==
    IF val.t # "obj" THEN FromValue(fields, types, val)
    ELSE LET known == { fields[i] : i \in 1..Len(fields) }
             present == known \cap DOMAIN val.v
             badType == { k \in present :
                              /\ val.v[k].t # types[IndexOf(fields, k)]
                              /\ ~(k \in optional /\ val.v[k].t = "null") }
             missing == { i \in 1..Len(fields) :
                              fields[i] \notin DOMAIN val.v /\ fields[i] \notin optional }
         IN  IF badType # {}
             THEN [ok |-> FALSE, v |-> Str(<<"invalid type">>)]
             ELSE IF missing # {}
             THEN [ok |-> FALSE,
                   v |-> Str(<<"missing field ",
                               fields[CHOOSE i \in missing : \A j \in missing : i <= j]>>)]
             ELSE [ok |-> TRUE,
                   v |-> Obj([k \in known |->
                                 IF k \in present /\ val.v[k].t # "null"
                                 THEN val.v[k] ELSE None])]

\* struct ToolConfig
ToolConfig(enabled, description_override, parameters) ==
    [enabled |-> enabled,
     description_override |-> description_override,
     parameters |-> parameters]

NoParameters == [k \in {} |-> Null]

\* The tool names a configuration file may hold: the three the server
\* implements and one it does not.
ConfiguredNames == {"greeting", "echo", "status", "custom"}

\* impl Default for ServerConfig: the three tool_configs entries.
DefaultToolConfigs ==
    [n \in ConfiguredNames |->
        IF n = "greeting" THEN <<ToolConfig(TRUE, None, NoParameters)>>
        ELSE IF n = "echo"
        THEN <<ToolConfig(TRUE, S("Echo messages with configurable prefix"),
                          [prefix |-> S("Echo: ")])>>
        ELSE IF n = "status" THEN <<ToolConfig(TRUE, None, NoParameters)>>
        ELSE <<>>]

\* load_config: the file may leave an entry out, disable it, or (for echo)
\* drop the override and set another prefix.
ToolConfigChoices(n) ==
    LET default == IF DefaultToolConfigs[n] = <<>>
                   THEN ToolConfig(TRUE, None, NoParameters)
                   ELSE DefaultToolConfigs[n][1]
    IN  {<<>>, <<default>>, <<[default EXCEPT !.enabled = FALSE]>>}
        \cup (IF n = "echo"
              THEN {<<ToolConfig(TRUE, None, [prefix |-> S("> ")])>>,
                    <<ToolConfig(TRUE, None, NoParameters)>>}
              ELSE {})

ServerConfigs ==
    { c \in [ConfiguredNames -> UNION { ToolConfigChoices(n) : n \in ConfiguredNames }] :
          \A n \in ConfiguredNames : c[n] \in ToolConfigChoices(n) }

ConfigurableGreetingSchema ==
    Obj([type |-> S("object"),
         properties |-> Obj([
             name |-> Obj([type |-> S("string"),
                           description |-> S("Name of the person to greet")]),
             language |-> Obj([type |-> S("string"),
                               description |-> S("Language for greeting (en, es, fr, de)"),
                               enum |-> Arr(<<S("en"), S("es"), S("fr"), S("de")>>),
                               default |-> S("en")])]),
         required |-> Arr(<<S("name")>>)])

EchoSchema ==
    Obj([type |-> S("object"),
         properties |-> Obj([message |-> Obj([type |-> S("string"),
                                              description |-> S("Message to echo back")])]),
         required |-> Arr(<<S("message")>>)])

StatusSchema ==
    Obj([type |-> S("object"),
         properties |-> EmptyObject,
         additionalProperties |-> [t |-> "bool", v |-> FALSE]])

\* The arms of list_tools' match: the Tool of an implemented name.
ConfigurableTool(tool_name, tool_config) ==
    LET description(default) ==
            IF tool_config.description_override.t = "none"
            THEN S(default) ELSE tool_config.description_override
        descriptor(text, schema) ==
            Obj([name |-> S(tool_name), description |-> text, input_schema |-> schema])
    IN  IF tool_name = "greeting"
        THEN <<descriptor(description("Generate personalized greetings in multiple languages"),
                          ConfigurableGreetingSchema)>>
        ELSE IF tool_name = "echo"
        THEN <<descriptor(description("Echo messages with optional prefix"), EchoSchema)>>
        ELSE IF tool_name = "status"
        THEN <<descriptor(description("Get server status and statistics"), StatusSchema)>>
        ELSE <<>>

\* The orders in which a HashMap holding these entries may be iterated.
IterationOrders(configs) ==
    LET keys == { n \in DOMAIN configs : configs[n] # <<>> }
    IN  { o \in [1..Cardinality(keys) -> keys] :
              \A i, j \in 1..Cardinality(keys) : o[i] = o[j] => i = j }

\* Mutant of ConfigurableServer_list_tools: disabled tools are listed too.
ConfigurableServer_list_tools_all(configs, order) ==
    LET kept == SelectSeq(order, LAMBDA n : ConfigurableTool(n, configs[n][1]) # <<>>)
    IN  [i \in 1..Len(kept) |-> ConfigurableTool(kept[i], configs[kept[i]][1])[1]]

\* ConfigurableServer::list_tools, the map iterated in the given order.
ConfigurableServer_list_tools(configs, order) ==
    LET kept == SelectSeq(order, LAMBDA n :
                    /\ configs[n][1].enabled
                    /\ ConfigurableTool(n, configs[n][1]) # <<>>)
    IN  [i \in 1..Len(kept) |-> ConfigurableTool(kept[i], configs[kept[i]][1])[1]]

GreetingRequestFields == <<"name", "language">>
GreetingRequestTypes == <<"str", "str">>
EchoRequestFields == <<"message">>
EchoRequestTypes == <<"str">>

\* format!("Tool '{}' is disabled", name)
DisabledError(name) == Str(<<"Tool '", name, "' is ", "disabled">>)

\* format!("Tool implementation not found: {}", name)
NotImplementedError(name) == Str(<<"Tool implementation not found: ", name>>)

\* The "greeting" arm of call_tool.
configurable_greeting(arguments) ==
    LET request == FromValueWithOptions(GreetingRequestFields, GreetingRequestTypes,
                                        {"language"}, arguments)
    IN  IF ~request.ok
        THEN [ok |-> FALSE, v |-> ParseArgumentsError(request.v), ran |-> <<>>]
        ELSE LET name == request.v.v.name.v
                 language == request.v.v.language
                 greeting ==
                     IF language = S("es")
                     THEN <<"¡Hola, ">> \o name
                              \o <<"! Bienvenido al servidor MCP configurable.">>
                     ELSE IF language = S("fr")
                     THEN <<"Bonjour, ">> \o name
                              \o <<" ! Bienvenue sur le serveur MCP configurable.">>
                     ELSE IF language = S("de")
                     THEN <<"Hallo, ">> \o name
                              \o <<"! Willkommen beim konfigurierbaren MCP-Server.">>
                     ELSE <<"Hello, ">> \o name
                              \o <<"! Welcome to the configurable MCP server.">>
             IN  [ok |-> TRUE,
                  v |-> Obj([message |-> Str(greeting),
                             language |-> IF language.t = "none" THEN S("en") ELSE language,
                             server |-> S("Configurable MCP Server")]),
                  ran |-> <<"greeting">>]

\* The "echo" arm of call_tool.
configurable_echo(configs, arguments) ==
    LET request == FromValue(EchoRequestFields, EchoRequestTypes, arguments)
    IN  IF ~request.ok
        THEN [ok |-> FALSE, v |-> ParseArgumentsError(request.v), ran |-> <<>>]
        ELSE LET parameters == configs["echo"][1].parameters
                 prefix == IF "prefix" \in DOMAIN parameters /\ parameters.prefix.t = "str"
                           THEN parameters.prefix.v ELSE <<"Echo: ">>
             IN  [ok |-> TRUE,
                  v |-> Obj([echo |-> Str(prefix \o request.v.v.message.v),
                             original |-> request.v.v.message,
                             timestamp |-> S("Utc::now")]),
                  ran |-> <<"echo">>]

\* The "status" arm of call_tool; count is what request_count holds.
configurable_status(count) ==
    [ok |-> TRUE,
     v |-> Obj([server_name |-> S("Configurable MCP Server"),
                version |-> S("1.0.0"),
                uptime_seconds |-> S("elapsed"),
                active_connections |-> Num(1),
                enabled_features |-> Arr(<<S("logging"), S("metrics")>>),
                total_requests |-> Num(count)]),
     ran |-> <<"status">>]

\* The match on the name that follows call_tool's configuration check.
ConfigurableServer_dispatch(configs, count, name, arguments) ==
    IF name = "greeting" THEN configurable_greeting(arguments)
    ELSE IF name = "echo" THEN configurable_echo(configs, arguments)
    ELSE IF name = "status" THEN configurable_status(count)
    ELSE [ok |-> FALSE, v |-> NotImplementedError(name), ran |-> <<>>]

\* Mutant of ConfigurableServer_call_tool: the enabled flag is not read.
ConfigurableServer_call_tool_unchecked(configs, count, name, arguments) ==
    IF name \notin DOMAIN configs \/ configs[name] = <<>>
    THEN [ok |-> FALSE, v |-> UnknownToolError(S(name)), ran |-> <<>>]
    ELSE ConfigurableServer_dispatch(configs, count, name, arguments)

\* ConfigurableServer::call_tool after its fetch_add; a result is
\* [ok, v, ran]: Ok(v) or Err(v), and ran holds the tool whose arm got
\* past the parsing of its arguments.
ConfigurableServer_call_tool(configs, count, name, arguments) ==
    IF name \notin DOMAIN configs \/ configs[name] = <<>>
    THEN [ok |-> FALSE, v |-> UnknownToolError(S(name)), ran |-> <<>>]
    ELSE IF ~configs[name][1].enabled
    THEN [ok |-> FALSE, v |-> DisabledError(name), ran |-> <<>>]
    ELSE ConfigurableServer_dispatch(configs, count, name, arguments)

\* The names and arguments callers pass.
CalledNames == ConfiguredNames \cup {"missing"}
ConfigurableArguments ==
    {EmptyObject,
     Obj([name |-> S("Test")]),
     Obj([name |-> S("Test"), language |-> S("es")]),
     Obj([message |-> S("test message")])}

\* ConfigurableServer::new(config)
ConfigInit ==
    /\ tool_configs \in ServerConfigs
    /\ request_count = 0
    /\ listed = <<>>
    /\ invoked = <<>>

\* server.list_tools()
ListTools ==
    /\ \E order \in IterationOrders(tool_configs) :
           listed' = <<ConfigurableServer_list_tools(tool_configs, order)>>
    /\ UNCHANGED <<tool_configs, request_count, invoked>>
    /\ UNCHANGED outsideConfig

\* server.call_tool(name, arguments)
CallTool ==
    /\ request_count < MaxRequests
    /\ \E name \in CalledNames, arguments \in ConfigurableArguments :
           /\ request_count' = request_count + 1
           /\ invoked' = <<[name |-> name,
                            arguments |-> arguments,
                            result |-> ConfigurableServer_call_tool(
                                           tool_configs, request_count + 1,
                                           name, arguments)]>>
    /\ UNCHANGED <<tool_configs, listed>>
    /\ UNCHANGED outsideConfig

NextConfig == ListTools \/ CallTool

--------------------------------------------------------------------------
\* Claim of the configurable server

\* The names of the tools the latest list_tools returned.
ListedNames == { listed[1][i].v.name.v[1] : i \in 1..Len(listed[1]) }

\* Whether the configuration holds the tool with enabled = false.
IsDisabled(name) ==
    /\ name \in DOMAIN tool_configs
    /\ tool_configs[name] # <<>>
    /\ ~tool_configs[name][1].enabled

\* Whether call_tool turned the call away before the tool's own arm.
Rejected(result) ==
    /\ ~result.ok
    /\ \/ result.v = UnknownToolError(S(invoked[1].name))
       \/ Contains(result.v.v, <<"disabled">>)
       \/ result.v = NotImplementedError(invoked[1].name)

\* C21: a tool configured with enabled = false is in no list_tools return,
\* and a call_tool of it returns an Err whose text contains "disabled"
\* without the tool having run; a tool that a list_tools return holds is
\* not turned away by call_tool as unknown, disabled or unimplemented.
C21_DisabledHiddenListedCallable ==
    /\ listed # <<>> => \A n \in ListedNames : ~IsDisabled(n)
    /\ invoked # <<>> /\ IsDisabled(invoked[1].name)
           => /\ ~invoked[1].result.ok
              /\ Contains(invoked[1].result.v.v, <<"disabled">>)
              /\ invoked[1].result.ran = <<>>
    /\ listed # <<>> /\ invoked # <<>> /\ invoked[1].name \in ListedNames
           => ~Rejected(invoked[1].result)

\* A disabled greeting, as in test_disabled_tool, was listed around and
\* called, beside an enabled tool that was listed.
C21_Witness ==
    /\ IsDisabled("greeting")
    /\ listed # <<>> /\ ListedNames # {}
    /\ invoked # <<>> /\ invoked[1].name = "greeting"
    /\ invoked[1].arguments = Obj([name |-> S("Test")])

--------------------------------------------------------------------------
\* File operations server (example_07_file_operations.rs). A path is the
\* sequence of its components; a canonical path starts at the root, so the
\* root is <<>>. A file system maps canonical paths to <<>> (nothing there),
\* <<[kind |-> "dir"]>> or <<[kind |-> "file", content |-> text]>>.
\* A tool's result is [ok, v, ops, fs]: Ok(v) or Err(v), the file system
\* operations the call made, in order, and the file system it leaves.

max_file_size == 1048576

\* The working directory of the process.
cwd == <<"work">>

allowed_directories == {<<".", "temp">>, <<".", "data">>, <<".", "examples">>}

allowed_extensions ==
    {<<".", "txt">>, <<".", "json">>, <<".", "md">>, <<".", "csv">>, <<".", "log">>}

Dir == <<[kind |-> "dir"]>>
File(content) == <<[kind |-> "file", content |-> content]>>

\* str::len of the texts used, in bytes.
ByteLen(text) ==
    IF text = S("test content") THEN 12
    ELSE IF text = S("demo file") THEN 9
    ELSE IF text = S("root:x:0:0") THEN 10
    ELSE IF text = S("SECRET=1") THEN 8
    ELSE max_file_size + 1

\* The directories and files main and the tests set up, beside a file
\* outside the allowed directories and a file over the size limit.
InitialFileSystem ==
    (<<>> :> Dir) @@ (<<"work">> :> Dir) @@ (<<"work", "temp">> :> Dir)
    @@ (<<"work", "temp", "demo.txt">> :> File(S("demo file")))
    @@ (<<"work", "temp", "NOTES.TXT">> :> File(S("a text over the size limit")))
    @@ (<<"work", "temp", ".env">> :> File(S("SECRET=1")))
    @@ (<<"work", "temp", "new.txt">> :> <<>>)
    @@ (<<"work", "temp", "run.exe">> :> <<>>)
    @@ (<<"etc">> :> Dir)
    @@ (<<"etc", "passwd">> :> File(S("root:x:0:0")))

exists(fs, p) == p \in DOMAIN fs /\ fs[p] # <<>>
is_dir(fs, p) == exists(fs, p) /\ fs[p][1].kind = "dir"
is_file(fs, p) == exists(fs, p) /\ fs[p][1].kind = "file"

\* Where the components lead from base: "/" is the root, "." stays, ".."
\* goes up.
RECURSIVE Resolve(_, _)
Resolve(base, components) ==
    IF components = <<>> THEN base
    ELSE LET c == Head(components)
             next == IF c = "/" THEN <<>>
                     ELSE IF c = "." THEN base
                     ELSE IF c = ".."
                     THEN (IF base = <<>> THEN <<>> ELSE SubSeq(base, 1, Len(base) - 1))
                     ELSE Append(base, c)
         IN  Resolve(next, Tail(components))

\* Path::canonicalize: the absolute path, if every step of it exists.
canonicalize(fs, path) ==
    IF path # <<>> /\ \A k \in 1..Len(path) : exists(fs, Resolve(cwd, SubSeq(path, 1, k)))
    THEN [ok |-> TRUE, v |-> Resolve(cwd, path)]
    ELSE [ok |-> FALSE, v |-> <<>>]

\* Path::extension of the texts used as file names.
extension(p) ==
    IF p = <<>> THEN <<>>
    ELSE LET name == p[Len(p)]
         IN  IF name \in {"demo.txt", "new.txt"} THEN <<"txt">>
             ELSE IF name = "NOTES.TXT" THEN <<"TXT">>
             ELSE IF name = "run.exe" THEN <<"exe">>
             ELSE <<>>

to_lowercase(text) == IF text = "TXT" THEN "txt" ELSE text

starts_with(p, prefix) ==
    Len(prefix) <= Len(p) /\ SubSeq(p, 1, Len(prefix)) = prefix

\* Path::display
PathText(p) == Str(<<"/">> \o p)

\* impl Display for FileOperationError
FileOperationErrorText(kind, msg) ==
    Str(<<(IF kind = "SecurityViolation" THEN "Security violation: "
           ELSE IF kind = "InvalidPath" THEN "Invalid path: "
           ELSE IF kind = "FileTooLarge" THEN "File too large: "
           ELSE IF kind = "UnsupportedExtension" THEN "Unsupported extension: "
           ELSE "I/O error: ")>> \o msg)

\* FileOperationsServer::validate_path, its error already as text.
validate_path(fs, path) ==
    LET whole == canonicalize(fs, path)
        parent == IF path = <<>> THEN <<>> ELSE <<SubSeq(path, 1, Len(path) - 1)>>
        canonical_path ==
            IF whole.ok THEN [ok |-> TRUE, v |-> whole.v]
            ELSE IF parent = <<>>
            THEN [ok |-> FALSE,
                  v |-> FileOperationErrorText("InvalidPath", <<"Invalid path structure">>)]
            ELSE IF ~canonicalize(fs, parent[1]).ok
            THEN [ok |-> FALSE,
                  v |-> FileOperationErrorText("InvalidPath",
                                               <<"Parent directory does not exist">>)]
            ELSE [ok |-> TRUE,
                  v |-> Append(canonicalize(fs, parent[1]).v, path[Len(path)])]
        allowed == \E allowed_dir \in allowed_directories :
                       /\ canonicalize(fs, allowed_dir).ok
                       /\ starts_with(canonical_path.v, canonicalize(fs, allowed_dir).v)
        ext == <<".", to_lowercase(extension(canonical_path.v)[1])>>
    IN  IF ~canonical_path.ok THEN canonical_path
        ELSE IF ~allowed
        THEN [ok |-> FALSE,
              v |-> FileOperationErrorText("SecurityViolation",
                        <<"Path '">> \o PathText(canonical_path.v).v
                            \o <<"' is not in an allowed directory">>)]
        ELSE IF extension(canonical_path.v) # <<>> /\ ext \notin allowed_extensions
        THEN [ok |-> FALSE,
              v |-> FileOperationErrorText("UnsupportedExtension",
                        <<"Extension '">> \o ext \o <<"' is not allowed">>)]
        ELSE canonical_path

\* FileOperationsServer::validate_file_size
validate_file_size(size) ==
    IF size > max_file_size
    THEN [ok |-> FALSE,
          v |-> FileOperationErrorText("FileTooLarge",
                    <<"File size ", ToString(size), " bytes exceeds maximum of ",
                      ToString(max_file_size), " bytes">>)]
    ELSE [ok |-> TRUE, v |-> Null]

Bool(b) == [t |-> "bool", v |-> b]

\* FileOperationsServer::create_file_info
create_file_info(config, fs, p) ==
    IF ~exists(fs, p)
    THEN [ok |-> FALSE, v |-> FileOperationErrorText("IoError", <<"No such file or directory">>)]
    ELSE [ok |-> TRUE,
          v |-> Obj([name |-> Str(IF p = <<>> THEN <<>> ELSE <<p[Len(p)]>>),
                     path |-> PathText(p),
                     file_type |-> IF is_dir(fs, p) THEN S("directory") ELSE S("file"),
                     size |-> IF is_dir(fs, p) THEN Num(4096)
                              ELSE Num(ByteLen(fs[p][1].content)),
                     modified |-> S("modified"),
                     readable |-> Bool(TRUE),
                     writable |-> Bool(~config.read_only_mode)])]

FileResult(ok, v, ops, fs) == [ok |-> ok, v |-> v, ops |-> ops, fs |-> fs]

\* FileOperationsServer::read_file
read_file(config, fs, arguments) ==
    LET request == FromValue(<<"file_path">>, <<"str">>, arguments)
        path == validate_path(fs, request.v.v.file_path.v)
        content == fs[path.v][1].content
    IN  IF ~request.ok THEN FileResult(FALSE, ParseArgumentsError(request.v), <<>>, fs)
        ELSE IF ~path.ok THEN FileResult(FALSE, path.v, <<"canonicalize">>, fs)
        ELSE IF ~is_file(fs, path.v)
        THEN FileResult(FALSE, Str(<<"Failed to read file: ", "io::Error">>),
                        <<"canonicalize", "read_to_string">>, fs)
        ELSE IF ~validate_file_size(ByteLen(content)).ok
        THEN FileResult(FALSE, validate_file_size(ByteLen(content)).v,
                        <<"canonicalize", "read_to_string">>, fs)
        ELSE FileResult(TRUE,
                        Obj([content |-> content,
                             path |-> PathText(path.v),
                             size |-> Num(ByteLen(content)),
                             encoding |-> S("utf-8")]),
                        <<"canonicalize", "read_to_string">>, fs)

ReadOnlyError == Str(<<"Server is in ", "read-only", " mode">>)

\* FileOperationsServer::write_file past its check of the mode. Where
\* create_dir_all is reached the parent exists already (validate_path saw
\* it), so it creates nothing.
write_file_body(config, fs, arguments) ==
    LET request == FromValueWithOptions(<<"file_path", "content", "create_directories">>,
                                        <<"str", "str", "bool">>,
                                        {"create_directories"}, arguments)
        path == validate_path(fs, request.v.v.file_path.v)
        content == request.v.v.content
        create == request.v.v.create_directories = Bool(TRUE) /\ path.v # <<>>
        before == <<"canonicalize">> \o (IF create THEN <<"create_dir_all">> ELSE <<>>)
    IN  IF ~request.ok THEN FileResult(FALSE, ParseArgumentsError(request.v), <<>>, fs)
        ELSE IF ~validate_file_size(ByteLen(content)).ok
        THEN FileResult(FALSE, validate_file_size(ByteLen(content)).v, <<>>, fs)
        ELSE IF ~path.ok THEN FileResult(FALSE, path.v, <<"canonicalize">>, fs)
        ELSE IF is_dir(fs, path.v)
        THEN FileResult(FALSE, Str(<<"Failed to write file: ", "io::Error">>),
                        before \o <<"write">>, fs)
        ELSE FileResult(TRUE,
                        Obj([success |-> Bool(TRUE),
                             path |-> PathText(path.v),
                             bytes_written |-> Num(ByteLen(content)),
                             message |-> S("File written successfully")]),
                        before \o <<"write">>,
                        [fs EXCEPT ![path.v] = File(content)])

\* Mutant of write_file: the mode is not looked at.
write_file_any_mode(config, fs, arguments) == write_file_body(config, fs, arguments)

\* FileOperationsServer::write_file
write_file(config, fs, arguments) ==
    IF config.read_only_mode THEN FileResult(FALSE, ReadOnlyError, <<>>, fs)
    ELSE write_file_body(config, fs, arguments)

\* FileOperationsServer::delete_file
delete_file(config, fs, arguments) ==
    LET request == FromValue(<<"file_path">>, <<"str">>, arguments)
        path == validate_path(fs, request.v.v.file_path.v)
    IN  IF config.read_only_mode THEN FileResult(FALSE, ReadOnlyError, <<>>, fs)
        ELSE IF ~request.ok THEN FileResult(FALSE, ParseArgumentsError(request.v), <<>>, fs)
        ELSE IF ~path.ok THEN FileResult(FALSE, path.v, <<"canonicalize">>, fs)
        ELSE IF ~is_file(fs, path.v)
        THEN FileResult(FALSE, Str(<<"Failed to delete file: ", "io::Error">>),
                        <<"canonicalize", "remove_file">>, fs)
        ELSE FileResult(TRUE,
                        Obj([success |-> Bool(TRUE),
                             path |-> PathText(path.v),
                             message |-> S("File deleted successfully")]),
                        <<"canonicalize", "remove_file">>,
                        [fs EXCEPT ![path.v] = <<>>])

\* FileOperationsServer::list_directory; the files of the listing are held
\* as a set, read_dir giving them in the order the platform chooses.
list_directory(config, fs, arguments) ==
    LET request == FromValueWithOptions(<<"directory_path", "include_hidden">>,
                                        <<"str", "bool">>, {"include_hidden"}, arguments)
        path == validate_path(fs, request.v.v.directory_path.v)
        include_hidden == request.v.v.include_hidden = Bool(TRUE)
        entries == { p \in DOMAIN fs : /\ exists(fs, p)
                                       /\ Len(p) = Len(path.v) + 1
                                       /\ starts_with(p, path.v) }
        shown == { p \in entries : include_hidden \/ p[Len(p)] # ".env" }
        files == { create_file_info(config, fs, p).v : p \in shown }
    IN  IF ~config.enable_directory_listing
        THEN FileResult(FALSE, Str(<<"Directory listing is disabled">>), <<>>, fs)
        ELSE IF ~request.ok THEN FileResult(FALSE, ParseArgumentsError(request.v), <<>>, fs)
        ELSE IF ~path.ok THEN FileResult(FALSE, path.v, <<"canonicalize">>, fs)
        ELSE IF ~is_dir(fs, path.v)
        THEN FileResult(FALSE, Str(<<"Failed to read directory: ", "io::Error">>),
                        <<"canonicalize", "read_dir">>, fs)
        ELSE FileResult(TRUE,
                        Obj([path |-> PathText(path.v),
                             files |-> [t |-> "arr_in_some_order", v |-> files],
                             total_count |-> Num(Cardinality(files))]),
                        <<"canonicalize", "read_dir", "metadata">>, fs)

\* FileOperationsServer::get_file_info
get_file_info(config, fs, arguments) ==
    LET request == FromValue(<<"file_path">>, <<"str">>, arguments)
        path == validate_path(fs, request.v.v.file_path.v)
        file_info == create_file_info(config, fs, path.v)
    IN  IF ~request.ok THEN FileResult(FALSE, ParseArgumentsError(request.v), <<>>, fs)
        ELSE IF ~path.ok THEN FileResult(FALSE, path.v, <<"canonicalize">>, fs)
        ELSE FileResult(file_info.ok, file_info.v, <<"canonicalize", "metadata">>, fs)

\* FileOperationsServer::call_tool
FileOperationsServer_call_tool(config, fs, name, arguments) ==
    IF name = "read_file" THEN read_file(config, fs, arguments)
    ELSE IF name = "write_file" THEN write_file(config, fs, arguments)
    ELSE IF name = "delete_file" THEN delete_file(config, fs, arguments)
    ELSE IF name = "list_directory" THEN list_directory(config, fs, arguments)
    ELSE IF name = "get_file_info" THEN get_file_info(config, fs, arguments)
    ELSE FileResult(FALSE, UnknownToolError(S(name)), <<>>, fs)

\* FileOperationsServer::list_tools, each Tool by its name.
FileOperationsServer_list_tools(config) ==
    <<"read_file", "get_file_info">>
    \o (IF ~config.read_only_mode THEN <<"write_file", "delete_file">> ELSE <<>>)
    \o (IF config.enable_directory_listing THEN <<"list_directory">> ELSE <<>>)

\* The configurations: the default's flags, each either way.
FileOperationsConfigs ==
    [read_only_mode : BOOLEAN, enable_directory_listing : BOOLEAN]

DefaultFileOperationsConfig ==
    [read_only_mode |-> FALSE, enable_directory_listing |-> TRUE]

\* The paths callers name: allowed ones that exist or do not, a disallowed
\* extension, paths outside the allowed directories (one by way of ".."),
\* a missing parent, a directory, the empty path.
RequestedPaths ==
    {<<".", "temp", "demo.txt">>, <<".", "temp", "new.txt">>,
     <<".", "temp", "NOTES.TXT">>, <<".", "temp", "run.exe">>,
     <<"/", "etc", "passwd">>, <<".", "temp", "..", "..", "etc", "passwd">>,
     <<".", "missing", "new.txt">>, <<".", "temp">>, <<>>}

\* Those of them callers ask to write.
WrittenPaths ==
    {<<".", "temp", "demo.txt">>, <<".", "temp", "new.txt">>, <<".", "temp", "run.exe">>,
     <<"/", "etc", "passwd">>, <<".", "temp">>}

\* The arguments callers pass: well-formed for one tool or another, and
\* malformed.
FileArguments ==
    { Obj([file_path |-> Str(p)]) : p \in RequestedPaths }
    \cup { Obj([file_path |-> Str(p), content |-> S("test content")]) : p \in WrittenPaths }
    \cup {Obj([file_path |-> Str(<<".", "temp", "new.txt">>),
               content |-> S("a text over the size limit")]),
          Obj([file_path |-> Str(<<".", "missing", "new.txt">>),
               content |-> S("test content"),
               create_directories |-> Bool(TRUE)]),
          Obj([directory_path |-> Str(<<".", "temp">>)]),
          Obj([directory_path |-> Str(<<".", "temp">>), include_hidden |-> Bool(TRUE)]),
          Obj([directory_path |-> Str(<<"/", "etc">>)]),
          EmptyObject, Null, Obj([file_path |-> Num(7)])}

FileToolNames ==
    {"read_file", "write_file", "delete_file", "list_directory", "get_file_info", "rename_file"}

\* FileOperationsServer::new(config), the file system as set up.
FileInit ==
    /\ file_config \in FileOperationsConfigs
    /\ file_system = InitialFileSystem
    /\ offered = <<>>
    /\ requested = <<>>

\* server.list_tools()
FileListTools ==
    /\ offered' = <<FileOperationsServer_list_tools(file_config)>>
    /\ UNCHANGED <<file_config, file_system, requested>>
    /\ UNCHANGED outsideFile

\* server.call_tool(name, arguments).await
FileCallTool ==
    /\ \E name \in FileToolNames, arguments \in FileArguments :
           LET result == FileOperationsServer_call_tool(file_config, file_system,
                                                        name, arguments)
           IN  /\ file_system' = result.fs
               /\ requested' = <<[name |-> name, arguments |-> arguments,
                                  ok |-> result.ok, v |-> result.v, ops |-> result.ops]>>
    /\ UNCHANGED <<file_config, offered>>
    /\ UNCHANGED outsideFile

NextFile == FileListTools \/ FileCallTool

--------------------------------------------------------------------------
\* Claim of the file operations server

MutatingTools == {"write_file", "delete_file"}

\* C22: in read_only_mode no step of the server changes the file system;
\* every write_file and delete_file call, whatever its arguments, returns
\* an Err whose text contains "read-only" having made no file system
\* operation; and no list_tools return holds write_file or delete_file.
C22_ReadOnlyChangesNothing ==
    [][file_config.read_only_mode =>
          /\ file_system' = file_system
          /\ requested' # <<>> /\ requested'[1].name \in MutatingTools
                 => /\ ~requested'[1].ok
                    /\ Contains(requested'[1].v.v, <<"read-only">>)
                    /\ requested'[1].ops = <<>>
          /\ offered' # <<>>
                 => \A i \in 1..Len(offered'[1]) : offered'[1][i] \notin MutatingTools]_vars

\* In read-only mode a well-formed write to an allowed path, as in
\* test_read_only_mode, was turned away.
C22_Witness ==
    /\ file_config.read_only_mode
    /\ requested # <<>>
    /\ requested[1].name = "write_file"
    /\ requested[1].arguments = Obj([file_path |-> Str(<<".", "temp", "new.txt">>),
                                     content |-> S("test content")])
    /\ ~requested[1].ok

--------------------------------------------------------------------------
\* Database server (example_09_database.rs): the tools create_user,
\* get_user, update_user and delete_user over the table users. What a
\* statement does to the tables is written out; a tool's result is
\* [ok, v, table, sequence, logs]: Ok(v) or Err(v) and the tables it leaves.

\* How many call_tool calls are followed.
MaxDbCalls == 3

\* datetime('now') at the given clock value.
datetime(clock) == Str(<<"datetime ", ToString(clock)>>)

\* A row of users, each column as the JSON value it serializes to.
UserRow(id, name, email, age, created_at, updated_at) ==
    [id |-> Num(id), name |-> name, email |-> email, age |-> age,
     created_at |-> created_at, updated_at |-> updated_at]

\* serde_json::to_value(user)
UserToValue(row) == Obj(row)

DbResult(ok, v, table, sequence, logs) ==
    [ok |-> ok, v |-> v, table |-> table, sequence |-> sequence, logs |-> logs]

\* DatabaseServer::log_operation: the row it inserts.
log_operation(logs, operation, user_id, details, clock) ==
    Append(logs, [operation |-> operation, user_id |-> user_id,
                  details |-> details, timestamp |-> datetime(clock)])

\* The ids of the rows of users.
RowIds(table) == { id \in DOMAIN table : table[id] # <<>> }

\* Whether a row other than the given one holds the email (UNIQUE).
EmailTaken(table, email, except) ==
    \E id \in RowIds(table) \ except : table[id][1].email = email

\* format!("User with ID {} not found", request.id)
UserNotFound(id) == Str(<<"User with ID ", ToString(id), " not found">>)

\* DatabaseServer::create_user
create_user(table, sequence, logs, clock, arguments) ==
    LET request == FromValueWithOptions(<<"name", "email", "age">>,
                                        <<"str", "str", "num">>, {"age"}, arguments)
        user_id == sequence + 1
        row == UserRow(user_id, request.v.v.name, request.v.v.email,
                       OptionToJson(request.v.v.age), datetime(clock), datetime(clock))
    IN  IF ~request.ok
        THEN DbResult(FALSE, ParseArgumentsError(request.v), table, sequence, logs)
        ELSE IF EmailTaken(table, request.v.v.email, {})
        THEN DbResult(FALSE,
                      Str(<<"Failed to create user: ",
                            "UNIQUE constraint failed: users.email">>),
                      table, sequence, logs)
        ELSE DbResult(TRUE, UserToValue(row),
                      [table EXCEPT ![user_id] = <<row>>], user_id,
                      log_operation(logs, "create_user", Num(user_id),
                                    Str(<<"Created user: ">> \o request.v.v.name.v), clock))

\* DatabaseServer::get_user
get_user(table, sequence, logs, clock, arguments) ==
    LET request == FromValue(<<"id">>, <<"num">>, arguments)
        id == request.v.v.id.v
    IN  IF ~request.ok
        THEN DbResult(FALSE, ParseArgumentsError(request.v), table, sequence, logs)
        ELSE IF id \notin RowIds(table)
        THEN DbResult(FALSE, UserNotFound(id), table, sequence, logs)
        ELSE DbResult(TRUE, UserToValue(table[id][1]), table, sequence,
                      log_operation(logs, "get_user", Num(id), Null, clock))

\* DatabaseServer::update_user. The query that is built from all the
\* supplied fields (_query, _params) is never executed; the statement that
\* runs is one of the two the if/else chain holds.
update_user(table, sequence, logs, clock, arguments) ==
    LET request == FromValueWithOptions(<<"id", "name", "email", "age">>,
                                        <<"num", "str", "str", "num">>,
                                        {"name", "email", "age"}, arguments)
        id == request.v.v.id.v
        name == request.v.v.name
        email == request.v.v.email
        age == request.v.v.age
        updates_is_empty == name.t = "none" /\ email.t = "none" /\ age.t = "none"
        present == id \in RowIds(table)
        named == [table EXCEPT ![id] =
                     <<[table[id][1] EXCEPT !.name = name,
                                            !.updated_at = datetime(clock)]>>]
        mailed == [table EXCEPT ![id] =
                      <<[table[id][1] EXCEPT !.email = email,
                                             !.updated_at = datetime(clock)]>>]
        updated == IF name.t # "none" THEN (IF present THEN named ELSE table)
                   ELSE IF email.t # "none" THEN (IF present THEN mailed ELSE table)
                   ELSE table
        affected_rows == IF (name.t # "none" \/ email.t # "none") /\ present THEN 1 ELSE 0
    IN  IF ~request.ok
        THEN DbResult(FALSE, ParseArgumentsError(request.v), table, sequence, logs)
        ELSE IF updates_is_empty
        THEN DbResult(FALSE, Str(<<"No fields to update">>), table, sequence, logs)
        ELSE IF name.t = "none" /\ email.t # "none" /\ present
                    /\ EmailTaken(table, email, {id})
        THEN DbResult(FALSE,
                      Str(<<"Failed to update user: ",
                            "UNIQUE constraint failed: users.email">>),
                      table, sequence, logs)
        ELSE IF affected_rows = 0
        THEN DbResult(FALSE, UserNotFound(id), table, sequence, logs)
        ELSE DbResult(TRUE, UserToValue(updated[id][1]), updated, sequence,
                      log_operation(logs, "update_user", Num(id), S("User updated"), clock))

\* DatabaseServer::delete_user
delete_user(table, sequence, logs, clock, arguments) ==
    LET request == FromValue(<<"id">>, <<"num">>, arguments)
        id == request.v.v.id.v
    IN  IF ~request.ok
        THEN DbResult(FALSE, ParseArgumentsError(request.v), table, sequence, logs)
        ELSE IF id \notin RowIds(table)
        THEN DbResult(FALSE, UserNotFound(id), table, sequence, logs)
        ELSE DbResult(TRUE,
                      Obj([success |-> Bool(TRUE),
                           message |-> Str(<<"User with ID ", ToString(id),
                                             " deleted successfully">>),
                           deleted_id |-> Num(id)]),
                      [table EXCEPT ![id] = <<>>], sequence,
                      log_operation(logs, "delete_user", Num(id), S("User deleted"), clock))

\* DatabaseServer::call_tool, the arms of the four tools followed here and
\* its last arm.
DatabaseServer_call_tool(table, sequence, logs, clock, name, arguments) ==
    IF name = "create_user" THEN create_user(table, sequence, logs, clock, arguments)
    ELSE IF name = "get_user" THEN get_user(table, sequence, logs, clock, arguments)
    ELSE IF name = "update_user" THEN update_user(table, sequence, logs, clock, arguments)
    ELSE IF name = "delete_user" THEN delete_user(table, sequence, logs, clock, arguments)
    ELSE DbResult(FALSE, UnknownToolError(S(name)), table, sequence, logs)

\* The ids callers name: rows that exist at some time, and one that never does.
RequestedIds == 1..2

\* The calls callers make.
DbCalls ==
    { <<"create_user", a>> :
          a \in {Obj([name |-> S("Alice"), email |-> S("alice@example.com"), age |-> Num(30)]),
                 Obj([name |-> S("Bob"), email |-> S("bob@example.com")]),
                 Obj([name |-> S("Bob")])} }
    \cup { <<"update_user", MkObj({<<"id", Num(id)>>, <<"name", name>>,
                                   <<"email", email>>, <<"age", age>>})>> :
               id \in RequestedIds, name \in {None, S("Alice Johnson")},
               email \in {None, S("bob@example.com")}, age \in {None, Num(31)} }
    \cup { <<"get_user", Obj([id |-> Num(id)])>> : id \in RequestedIds }
    \cup { <<"delete_user", Obj([id |-> Num(id)])>> : id \in RequestedIds }
    \cup {<<"update_user", EmptyObject>>, <<"drop_users", EmptyObject>>}

\* DatabaseServer::new with enable_migrations: the tables exist and are empty.
DbInit ==
    /\ users_table = [id \in 1..MaxDbCalls |-> <<>>]
    /\ users_sequence = 0
    /\ operation_logs = <<>>
    /\ db_calls = 0
    /\ db_result = <<>>

\* server.call_tool(name, arguments).await
DbCallTool ==
    /\ db_calls < MaxDbCalls
    /\ \E call \in DbCalls :
           LET result == DatabaseServer_call_tool(users_table, users_sequence,
                                                  operation_logs, db_calls + 1,
                                                  call[1], call[2])
           IN  /\ users_table' = result.table
               /\ users_sequence' = result.sequence
               /\ operation_logs' = result.logs
               /\ db_result' = <<[name |-> call[1], arguments |-> call[2],
                                  before |-> users_table,
                                  ok |-> result.ok, v |-> result.v]>>
    /\ db_calls' = db_calls + 1
    /\ UNCHANGED outsideDb

NextDb == DbCallTool

--------------------------------------------------------------------------
\* Claim of the database server

\* The optional fields the latest call's arguments supply.
Supplied == {"name", "email", "age"} \cap DOMAIN db_result[1].arguments.v

\* The latest call is an update_user of a row that existed, with at least
\* one field supplied and no other row holding a supplied email.
UpdatedExisting ==
    /\ db_result # <<>>
    /\ db_result[1].name = "update_user"
    /\ "id" \in DOMAIN db_result[1].arguments.v
    /\ db_result[1].arguments.v.id.v \in RowIds(db_result[1].before)
    /\ Supplied # {}
    /\ "email" \in Supplied
           => ~EmailTaken(db_result[1].before, db_result[1].arguments.v.email,
                          {db_result[1].arguments.v.id.v})

\* C23: an update_user of an existing user id returns Ok with the stored
\* user, and the stored user holds every field the request supplied (name,
\* email, age); a request with only age, or with name and email, is not
\* answered "User with ID ... not found".
C23_UpdateWritesSuppliedFields ==
    UpdatedExisting
        => LET id == db_result[1].arguments.v.id.v
           IN  /\ db_result[1].ok
               /\ users_table[id] # <<>>
               /\ \A field \in Supplied :
                      users_table[id][1][field] = db_result[1].arguments.v[field]
               /\ db_result[1].v = UserToValue(users_table[id][1])

--------------------------------------------------------------------------
\* Specifications: the examples are separate programs; each specification
\* runs one of them from its start and leaves the others at theirs.

Init ==
    /\ MainInit /\ QueueInit /\ AuthInit /\ NotifyInit
    /\ ConfigInit /\ tool_configs = DefaultToolConfigs
    /\ FileInit /\ file_config = DefaultFileOperationsConfig
    /\ DbInit

\* The start of a specification of another example than the first two:
\* which of these two stands idle makes no difference.
InitOther == Init /\ server = "hello"

Spec == Init /\ [][Next]_vars

SpecSession == Init /\ [][NextSession]_vars /\ WF_pc(Advance)

\* The task queue alone. The runtime polls the spawned worker whenever it
\* can go on: a sleep elapses, try_recv returns, a ready branch of select!
\* is taken.
SpecQueue ==
    /\ InitOther
    /\ [][NextQueue]_vars
    /\ WF_queueVars(Worker)

\* The authentication service alone, its calls made one after another or
\* concurrently: each holds the lock of the store it works on.
SpecAuth ==
    /\ InitOther
    /\ [][NextAuth]_vars

\* The notification service alone, with its spawned DeliveryWorker.
SpecNotify ==
    /\ InitOther
    /\ [][NextNotify]_vars

\* The configurable server alone, started with any of the configurations.
InitConfig ==
    /\ MainInit /\ server = "hello"
    /\ QueueInit /\ AuthInit /\ NotifyInit
    /\ ConfigInit
    /\ FileInit /\ file_config = DefaultFileOperationsConfig
    /\ DbInit

SpecConfig ==
    /\ InitConfig
    /\ [][NextConfig]_vars

\* The file operations server alone, in any of its modes.
InitFile ==
    /\ MainInit /\ server = "hello"
    /\ QueueInit /\ AuthInit /\ NotifyInit
    /\ ConfigInit /\ tool_configs = DefaultToolConfigs
    /\ FileInit
    /\ DbInit

SpecFile ==
    /\ InitFile
    /\ [][NextFile]_vars

\* The database server alone.
SpecDb ==
    /\ InitOther
    /\ [][NextDb]_vars

====
